---------------------------- MODULE Spec2Model ----------------------------
(***************************************************************************)
(* Colter: session cache, encrypted configuration and startup sequence.    *)
(*                                                                         *)
(* The OS secret store (keyring), the two files in the home directory      *)
(* (salt, configuration) and the clock are the persistent state; the       *)
(* functions of _utilities.py and _config_helper.py are operators on that  *)
(* state, and the actions apply them.                                      *)
(***************************************************************************)
EXTENDS Integers, Sequences, FiniteSets, TLC

VARIABLES
    keyring,          \* OS secret store: the two entries of service colter_session
    now,              \* wall clock, in minutes
    pre_keyring,      \* the keyring as the last session operation found it
                      \* (the keyring itself when lastOp is no session operation)
    salt_file,        \* ~/.colter_salt.bin
    config_file,      \* ~/.colter_config.yaml
    lastOp,           \* name of the operation that produced this state
    session_ret,      \* what check_session returned, when lastOp is check_session
    load_ret,         \* outcome of load_config, when lastOp is load_config
    gen_ret,          \* outcome of generate_default_config, when lastOp ran it
    pc,               \* position of main()
    args,             \* parsed command line of the running process
    master_password,  \* main()'s local master_password
    config,           \* main()'s local config
    exit_status,      \* exit status of the last finished process
    run,              \* what the running process has done so far
    crypto,           \* the last call of derive_key, encrypt_data or decrypt_data
                      \* made on its own: arguments and outcome
    export,           \* the last call of a DataExporter method made on its own:
                      \* arguments and outcome
    api,              \* GitHub as it is now: the repositories it lists and what
                      \* it answers to the requests about each
    gh,               \* the last call of GitHubTracker.check_issues made on its
                      \* own since GitHub changed: arguments and outcome
    tasks,            \* the call of run_tasks made on its own since GitHub
                      \* changed: arguments and outcome
    daemon,           \* the process running in daemon mode: its position, the
                      \* locals of run_tasks_daemon_mode and what its last job
                      \* did; with it, st_mtime of the configuration file
    fetch,            \* one GitHubTracker: the caches of its fetch methods,
                      \* the last call of one of them, and for each call
                      \* signature the last answer GitHub gave to it
    pkgs              \* the last call of a PyPITracker method made on its own:
                      \* arguments and outcome

sessionVars == <<keyring, now, pre_keyring, session_ret>>
fileVars    == <<salt_file, config_file>>
configVars  == <<load_ret, gen_ret>>
mainVars    == <<pc, args, master_password, config, exit_status, run>>
coreVars == <<sessionVars, fileVars, configVars, mainVars>>
(* the state of the parts that the session, configuration and startup
   operations never touch *)
runVars == <<api, gh, tasks, daemon>>
(* the GitHub tracker's cached requests and the PyPI tracker *)
trackVars == <<fetch, pkgs>>
extVars == <<crypto, export, runVars, trackVars>>
vars == <<coreVars, extVars, lastOp>>

---------------------------------------------------------------------------
(* Bounds of the model *)

MaxTime == 32        \* the clock runs from 0 to MaxTime minutes
MaxSalts == 2        \* the values os.urandom can give for a fresh salt
MaxTextLen == 2      \* the longest text encrypted, in code points
MaxBatches == 3      \* the most batches handed to process_batches
MaxFails == 3        \* the most leading attempts of one call that fail
MaxRepos == 2        \* the most repositories GitHub lists
MaxEdits == 3        \* how often the configuration file is written
MaxJobs == 3         \* how many jobs one daemon process runs
MaxFetchTime == 11   \* the minutes one tracker is followed for

(* Python's None, for the string-valued results *)
None == "None"

(* The master passwords a user may type; "" is an empty entry *)
Passwords == {"", "p1", "p2"}

Truthy(s) == s # None /\ s # ""

---------------------------------------------------------------------------
(* Session cache: _utilities.py *)

SESSION_DURATION == 30

AbsentEntry  == [kind |-> "absent", t |-> 0]
GarbageEntry == [kind |-> "garbage", t |-> 0]
SessionJson(t) == [kind |-> "json", t |-> t]

EmptyKeyring == [master_password |-> None, session_timestamp |-> AbsentEntry]

(* clear_session as it would be if it stopped after the first delete *)
clear_session_password_only(kr) == [kr EXCEPT !.master_password = None]

(* clear_session: both deletes, PasswordDeleteError swallowed *)
clear_session(kr) ==
    LET afterPw == [kr EXCEPT !.master_password = None]
    IN  [afterPw EXCEPT !.session_timestamp = AbsentEntry]

(* create_session as it would be if the timestamp were written even after
   the password could not be stored *)
create_session_timestamp_anyway(kr, password, t, setPwFails, setTsFails) ==
    LET afterPw == IF setPwFails THEN kr
                   ELSE [kr EXCEPT !.master_password = password]
    IN  IF setTsFails THEN afterPw
        ELSE [afterPw EXCEPT !.session_timestamp = SessionJson(t)]

(* create_session: setPwFails / setTsFails are the KeyringError outcomes *)
create_session(kr, password, t, setPwFails, setTsFails) ==
    IF setPwFails THEN kr
    ELSE LET afterPw == [kr EXCEPT !.master_password = password]
         IN  IF setTsFails THEN afterPw
             ELSE [afterPw EXCEPT !.session_timestamp = SessionJson(t)]

(* check_session as it would be if a successful check renewed the session *)
check_session_renewing(kr, t) ==
    LET ts == kr.session_timestamp
    IN  IF ts.kind = "json" /\ t - ts.t < SESSION_DURATION /\ Truthy(kr.master_password)
          THEN [ret |-> kr.master_password,
                keyring |-> [kr EXCEPT !.session_timestamp = SessionJson(t)]]
        ELSE IF ts.kind = "absent"
          THEN [ret |-> None, keyring |-> kr]
        ELSE [ret |-> None, keyring |-> clear_session(kr)]

(* check_session as it would be if it only reported an invalid session *)
check_session_not_clearing(kr, t) ==
    LET ts == kr.session_timestamp
    IN  IF ts.kind = "json" /\ t - ts.t < SESSION_DURATION /\ Truthy(kr.master_password)
          THEN [ret |-> kr.master_password, keyring |-> kr]
        ELSE [ret |-> None, keyring |-> kr]

(* check_session: [ret, keyring] *)
check_session(kr, t) ==
    LET ts == kr.session_timestamp
    IN  IF ts.kind = "absent"
          THEN [ret |-> None, keyring |-> kr]
        ELSE IF ts.kind = "garbage"
          THEN [ret |-> None, keyring |-> clear_session(kr)]
        ELSE IF t - ts.t < SESSION_DURATION
          THEN [ret |-> IF Truthy(kr.master_password) THEN kr.master_password ELSE None,
                keyring |-> kr]
        ELSE [ret |-> None, keyring |-> clear_session(kr)]

---------------------------------------------------------------------------
(* Secret store: derive_key / encrypt_data / decrypt_data of _utilities.py *)

NoKey == <<"", 0>>

(* A str is the sequence of its code points, bytes the sequence of its octets.
   Tok, PkgA, PkgB and Gw are the texts typed in at the prompts. *)
NoText == <<>>
Tok == <<116, 233>>
PkgA == <<97>>
PkgB == <<98>>
Gw == <<103>>

(* a field value of the configuration document: a plain str, or the Fernet
   token made under a key, holding the bytes that were encrypted *)
Plain(m) == [enc |-> FALSE, key |-> NoKey, m |-> m]

(* the salt argument of a caller that passes no bytes object *)
NotBytes == -1

(* derive_key as it would be without its argument checks *)
derive_key_unchecked(password, salt) ==
    [raised |-> None, key |-> <<password, salt>>]

(* PBKDF2 is a deterministic, collision-free function of (password, salt);
   salt is the content of the salt file, 0 for no bytes *)
derive_key(password, salt) ==
    IF password = None THEN [raised |-> "TypeError", key |-> NoKey]
    ELSE IF salt = NotBytes THEN [raised |-> "TypeError", key |-> NoKey]
    ELSE IF password = "" THEN [raised |-> "ValueError", key |-> NoKey]
    ELSE IF salt = 0 THEN [raised |-> "ValueError", key |-> NoKey]
    ELSE [raised |-> None, key |-> <<password, salt>>]

(* UTF-8 of one code point of the basic plane *)
Utf8(cp) ==
    IF cp < 128 THEN <<cp>>
    ELSE IF cp < 2048 THEN <<192 + (cp \div 64), 128 + (cp % 64)>>
    ELSE <<224 + (cp \div 4096), 128 + ((cp \div 64) % 64), 128 + (cp % 64)>>

(* str.encode() *)
RECURSIVE encode(_)
encode(text) ==
    IF text = <<>> THEN <<>> ELSE Utf8(Head(text)) \o encode(Tail(text))

IsCont(b, i) == i <= Len(b) /\ b[i] \in 128..191

(* bytes.decode() as it would be if every byte were taken for a character *)
decode_bytewise(b) == [raised |-> None, text |-> b]

(* bytes.decode(): strict UTF-8 *)
RECURSIVE decode(_)
decode(b) ==
    IF b = <<>> THEN [raised |-> None, text |-> <<>>]
    ELSE LET n == IF b[1] < 128 THEN 1
                  ELSE IF b[1] \in 194..223 /\ IsCont(b, 2) THEN 2
                  ELSE IF b[1] \in 224..239 /\ IsCont(b, 2) /\ IsCont(b, 3) THEN 3
                  ELSE 0
             cp == IF n = 1 THEN b[1]
                   ELSE IF n = 2 THEN (b[1] - 192) * 64 + (b[2] - 128)
                   ELSE (b[1] - 224) * 4096 + (b[2] - 128) * 64 + (b[3] - 128)
             rest == decode(SubSeq(b, n + 1, Len(b)))
         IN  IF n = 0 \/ rest.raised # None
               THEN [raised |-> "UnicodeDecodeError", text |-> <<>>]
               ELSE [raised |-> None, text |-> <<cp>> \o rest.text]

(* encrypt_data as it would be if the value were stored as entered *)
encrypt_data_plain(data, key) == Plain(data)

(* fernet.encrypt(data.encode()).decode(): the token text stands for the
   authenticated encryption of the bytes under the key (its IV and its time
   stamp play no part in decrypt_data, which sets no ttl) *)
encrypt_data(data, key) == [enc |-> TRUE, key |-> key, m |-> encode(data)]

(* the token text with a character changed *)
Corrupted(token) == [token EXCEPT !.enc = FALSE]

(* fernet.decrypt(data.encode()).decode(): Fernet authenticates the token, so
   anything but a token made under the same key raises InvalidToken *)
decrypt_data(data, key) ==
    IF data.enc /\ data.key = key
      THEN LET t == decode(data.m)
           IN  [raised |-> t.raised, data |-> t.text]
      ELSE [raised |-> "InvalidToken", data |-> NoText]

(* no call of the three functions made yet *)
NoCall ==
    [op |-> "none", password |-> None, salt |-> 0, key |-> NoKey, m |-> NoText,
     token |-> Plain(NoText), corrupted |-> FALSE,
     dpassword |-> None, dsalt |-> 0, dkey |-> NoKey,
     raised |-> None, ret |-> NoText]

(* the prometheus section of the configuration: gateway and job *)
NoPrometheus == [present |-> FALSE, gateway |-> NoText, job |-> ""]
Jobs == {"colter", "nightly"}
PrometheusConfigs ==
    {NoPrometheus} \cup {[present |-> TRUE, gateway |-> Gw, job |-> j] : j \in Jobs}

(* no call of a DataExporter method made yet *)
NoExport ==
    [op |-> "none", configured |-> FALSE, requested |-> FALSE, fails |-> <<>>,
     prometheus_config |-> NoPrometheus, labels |-> FALSE,
     success_count |-> 0, failure_count |-> 0, log |-> <<>>,
     raised |-> FALSE, calls |-> 0, pushes |-> 0, delivered |-> <<>>]

(* GitHubTracker.check_issues: what the GitHub API answers to one request is
   the value it gives, or a failure (an error status or an exception of
   requests, which the fetch_* methods turn into GitHubAPIError) *)
Answer(v) == [ok |-> TRUE, val |-> v]
Failure(v) == [ok |-> FALSE, val |-> v]
IssuesOut(raised, repo_stats, issues_by_repo, fake, alert, emails, shown) ==
    [raised |-> raised, repo_stats |-> repo_stats, issues_by_repo |-> issues_by_repo,
     fake |-> fake, alert |-> alert, emails |-> emails, shown |-> shown]
(* no call of check_issues made yet *)
NoIssues ==
    [op |-> "none",
     in |-> [fetch_ok |-> TRUE, repos |-> <<>>, test_email |-> FALSE,
             dry_run |-> FALSE, smtp |-> FALSE, mail |-> "ok"],
     out |-> IssuesOut(None, <<>>, <<>>, FALSE, FALSE, 0, FALSE)]

(* run_tasks: the command line it is given, the exporter (None, or one built
   with or without the sections of its sinks), and what one call did *)
TaskArgs ==
    [type : {"github", "pypi", "all"}, output : SUBSET {"influx", "prometheus"},
     test_email : BOOLEAN, dry_run : BOOLEAN]
NoExporter ==
    [present |-> FALSE, influx_config |-> FALSE, prometheus_config |-> NoPrometheus]
TasksOut(raised, issues, github_called, pypi_called, errors, writes, pushes) ==
    [raised |-> raised, issues |-> issues, github_called |-> github_called,
     pypi_called |-> pypi_called, errors |-> errors, writes |-> writes,
     pushes |-> pushes]
NoTasks ==
    [op |-> "none",
     args |-> [type |-> "all", output |-> {}, test_email |-> FALSE, dry_run |-> FALSE],
     github_tracker |-> FALSE, pypi_tracker |-> FALSE, data_exporter |-> NoExporter,
     env |-> [repos |-> <<>>, fetch_ok |-> TRUE, smtp |-> FALSE, mail |-> "ok",
              stats_ok |-> TRUE, sink_fails |-> 0],
     startup |-> [output |-> {}, missing |-> {}, add_now |-> FALSE,
                  still_missing |-> {}],
     out |-> TasksOut(None, NoIssues.out, FALSE, FALSE, 0, 0, 0)]

---------------------------------------------------------------------------
(* Configuration document and files: _config_helper.py *)

Sections == {"github", "pypi", "influxdb", "prometheus", "smtp"}
CoreSections == {"github", "pypi", "influxdb", "prometheus"}
EncryptedOrder == <<"github", "smtp", "influxdb">>

(* a section holds one value here: its sensitive field (github.token,
   influxdb.token, smtp.password) or, for pypi and prometheus, its settings *)
AbsentSection == [present |-> FALSE, val |-> Plain(NoText)]
Section(v) == [present |-> TRUE, val |-> v]
(* the document as a mapping from section name to section *)
MkDoc(github, pypi, influxdb, prometheus, smtp) ==
    [github |-> github, pypi |-> pypi, influxdb |-> influxdb,
     prometheus |-> prometheus, smtp |-> smtp]
EmptyDoc ==
    MkDoc(AbsentSection, AbsentSection, AbsentSection, AbsentSection, AbsentSection)

NoSalt == [exists |-> FALSE, bytes |-> 0]
NoConfig == [exists |-> FALSE, yaml_ok |-> TRUE, doc |-> EmptyDoc]

(* What the user answers and what the file system does during one call of
   generate_default_config: the bytes os.urandom returns, the sections
   answered "yes", the answer to the SMTP question, the secret, the package list
   and the gateway typed in, and which file operation fails, if any *)
IoOutcomes == {"ok", "salt_fail", "config_read_fail", "config_write_fail"}
Secrets == {Tok}
Packages == {PkgA, PkgB}
Gateways == {Gw}

GenRet(raised, io, sf, cf, accepted, prompted, smtp_asked, wrote, created) ==
    [ran |-> TRUE, raised |-> raised, io |-> io, salt_file |-> sf, config_file |-> cf,
     accepted |-> accepted, prompted |-> prompted, smtp_asked |-> smtp_asked,
     wrote |-> wrote, salt_created |-> created]

NoGen == [GenRet(None, "ok", NoSalt, NoConfig, {}, FALSE, FALSE, FALSE, FALSE)
            EXCEPT !.ran = FALSE]

(* lines 186-207 as they would be if a salt were drawn on every call *)
always_create_salt(sf, newSalt, io) ==
    IF io = "salt_fail"
      THEN [ok |-> FALSE, salt_file |-> sf, created |-> FALSE]
      ELSE [ok |-> TRUE, salt_file |-> [exists |-> TRUE, bytes |-> newSalt],
            created |-> TRUE]

(* lines 186-207: the salt is created when the file is absent, read otherwise *)
load_or_create_salt(sf, newSalt, io) ==
    IF io = "salt_fail"
      THEN [ok |-> FALSE, salt_file |-> sf, created |-> FALSE]
    ELSE IF ~sf.exists
      THEN [ok |-> TRUE, salt_file |-> [exists |-> TRUE, bytes |-> newSalt],
            created |-> TRUE]
    ELSE [ok |-> TRUE, salt_file |-> sf, created |-> FALSE]

(* lines 233-235 as they would be if every section were offered again *)
every_section(doc) == CoreSections

(* lines 233-235 *)
missing_sections(doc) == {s \in CoreSections : ~doc[s].present}

(* lines 254-286: the record stored for a section the user configures *)
new_section(s, in, key) ==
    IF s \in {"github", "influxdb"}
      THEN Section(encrypt_data(in.secret, key))
    ELSE IF s = "pypi" THEN Section(Plain(in.packages))
    ELSE Section(Plain(in.gateway))

generate_default_config(password, sf, cf, in) ==
    IF ~Truthy(password)
      THEN GenRet("ValueError", "ok", sf, cf, {}, FALSE, FALSE, FALSE, FALSE)
    ELSE
    LET salt == load_or_create_salt(sf, in.newSalt, in.io)
        k == derive_key(password, salt.salt_file.bytes)
        existing == IF cf.exists THEN cf.doc ELSE EmptyDoc
        missing == missing_sections(existing)
        include == in.include \cap missing
        merged(s) == IF s \in include THEN new_section(s, in, k.key)
                                      ELSE existing[s]
        withCore == MkDoc(merged("github"), merged("pypi"), merged("influxdb"),
                          merged("prometheus"), merged("smtp"))
        askSmtp == /\ ("github" \in include \/ withCore["github"].present)
                   /\ ~withCore["smtp"].present
        final == IF askSmtp /\ in.smtp
                   THEN [withCore EXCEPT
                           !["smtp"] = Section(encrypt_data(in.secret, k.key))]
                   ELSE withCore
        accepted == include \cup (IF askSmtp /\ in.smtp THEN {"smtp"} ELSE {})
    IN  IF ~salt.ok
          THEN GenRet(None, in.io, sf, cf, {}, FALSE, FALSE, FALSE, FALSE)
        ELSE IF k.raised # None
          THEN GenRet(None, in.io, salt.salt_file, cf, {}, FALSE, FALSE, FALSE, salt.created)
        ELSE IF cf.exists /\ (~cf.yaml_ok \/ in.io = "config_read_fail")
          THEN GenRet(None, in.io, salt.salt_file, cf, {}, FALSE, FALSE, FALSE, salt.created)
        ELSE IF missing = {}
          THEN GenRet(None, in.io, salt.salt_file, cf, {}, FALSE, FALSE, FALSE, salt.created)
        ELSE IF include = {}
          THEN GenRet(None, in.io, salt.salt_file, cf, {}, TRUE, FALSE, FALSE, salt.created)
        ELSE IF in.io = "config_write_fail"
          THEN GenRet(None, in.io, salt.salt_file, cf, accepted, TRUE, askSmtp, FALSE,
                      salt.created)
        ELSE GenRet(None, in.io, salt.salt_file,
                    [exists |-> TRUE, yaml_ok |-> TRUE, doc |-> final],
                    accepted, TRUE, askSmtp, TRUE, salt.created)

(* lines 152-158: the fields are decrypted in place, in this order; n counts
   the decrypt_data calls made *)
RECURSIVE decrypt_fields(_, _, _, _)
decrypt_fields(doc, key, i, n) ==
    IF i > Len(EncryptedOrder)
      THEN [raised |-> None, config |-> doc, decrypts |-> n]
    ELSE LET s == EncryptedOrder[i]
             d == decrypt_data(doc[s].val, key)
         IN  IF ~doc[s].present THEN decrypt_fields(doc, key, i + 1, n)
             ELSE IF d.raised # None
               THEN [raised |-> d.raised, config |-> doc, decrypts |-> n + 1]
             ELSE decrypt_fields([doc EXCEPT ![s] = Section(Plain(d.data))],
                                 key, i + 1, n + 1)

(* lines 129-160; yaml_ok = FALSE: the file is there and yaml.safe_load
   cannot parse it; io = "config_read_fail": CONFIG_PATH cannot be opened or
   read *)
_load(password, sf, cf, io) ==
    LET k == derive_key(password, sf.bytes)
    IN  IF ~cf.yaml_ok \/ io = "config_read_fail"
          THEN [raised |-> "YAMLError", config |-> EmptyDoc, decrypts |-> 0]
        ELSE IF ~sf.exists
          THEN [raised |-> "FileNotFoundError", config |-> EmptyDoc, decrypts |-> 0]
        ELSE IF ~Truthy(password)
          THEN [raised |-> "ConfigError", config |-> EmptyDoc, decrypts |-> 0]
        ELSE IF k.raised # None
          THEN [raised |-> k.raised, config |-> EmptyDoc, decrypts |-> 0]
        ELSE decrypt_fields(cf.doc, k.key, 1, 0)

LoadRet(raised, isNone, cfg, decrypts, sf, cf, gen) ==
    [raised |-> raised, isNone |-> isNone, config |-> cfg, decrypts |-> decrypts,
     salt_file |-> sf, config_file |-> cf, gen |-> gen]

(* lines 78-87 and 96-105 as they would be if a field that fails to decrypt
   were skipped and the document returned as far as it was decrypted *)
try_load_keeping_decrypted(password, sf, cf, io, gen) ==
    LET l == _load(password, sf, cf, io)
    IN  IF l.raised \notin {None, "InvalidToken"}
          THEN LoadRet(None, TRUE, EmptyDoc, l.decrypts, sf, cf, gen)
          ELSE LoadRet(None, FALSE, l.config, l.decrypts, sf, cf, gen)

(* lines 78-87 and 96-105: every exception of _load becomes a None result *)
try_load(password, sf, cf, io, gen) ==
    LET l == _load(password, sf, cf, io)
    IN  IF l.raised # None
          THEN LoadRet(None, TRUE, EmptyDoc, l.decrypts, sf, cf, gen)
          ELSE LoadRet(None, FALSE, l.config, l.decrypts, sf, cf, gen)

(* load_config as it would be if the salt check were missing *)
load_config_no_salt_check(password, sf, cf, in) ==
    try_load(password, sf, cf, in.io, NoGen)

load_config(password, sf, cf, in) ==
    IF ~cf.exists
      THEN LET g == generate_default_config(password, sf, cf, in)
           IN  IF g.raised # None
                 THEN LoadRet(g.raised, FALSE, EmptyDoc, 0, g.salt_file, g.config_file, g)
               ELSE IF g.config_file.exists
                 THEN try_load(password, g.salt_file, g.config_file, in.io, g)
               ELSE LoadRet(None, TRUE, EmptyDoc, 0, g.salt_file, g.config_file, g)
    ELSE IF ~sf.exists
      THEN LoadRet("ConfigError", FALSE, EmptyDoc, 0, sf, cf, NoGen)
    ELSE try_load(password, sf, cf, in.io, NoGen)

(* what main() and the daemon job test with "if not config" *)
NoConfigLoaded(l) ==
    l.isNone \/ \A s \in Sections : ~l.config[s].present

(* one call of load_config as seen by its caller: the arguments, what it
   raised or returned, and the number of decrypt_data calls it made *)
LoadObs(l, password, in) ==
    [raised |-> l.raised, isNone |-> l.isNone, config |-> l.config,
     decrypts |-> l.decrypts, password |-> password, io |-> in.io]

NoLoad ==
    [raised |-> None, isNone |-> TRUE, config |-> EmptyDoc, decrypts |-> 0,
     password |-> None, io |-> "ok"]

(* main()'s locals before anything is assigned, and what the process has done:
   asked for the password, taken the cached one, called load_config (with
   which password, and whether it gave a configuration), run
   generate_default_config, called create_session, run the trackers *)
NoneConfig == [isNone |-> TRUE, doc |-> EmptyDoc]
NoArgs == [logout |-> FALSE, help |-> FALSE, generate_config |-> FALSE]
NoRun == [prompted |-> FALSE, cached |-> FALSE, loaded |-> FALSE, load_pw |-> None,
          load_ok |-> FALSE, generated |-> FALSE, session_created |-> FALSE,
          trackers |-> FALSE]

(* What one call of job() did: in the scheduled loop or as the first job;
   skipped for want of the file; found the modification time changed;
   rebound config, trackers and exporter; called run_tasks, and with the
   objects of which reload; what it raised; the errors run_tasks caught *)
NoJob ==
    [kind |-> "none", skipped |-> FALSE, changed |-> FALSE, rebound |-> FALSE,
     ran_tasks |-> FALSE, raised |-> None, errors |-> 0,
     ran_with |-> [config |-> 0, github_tracker |-> 0, pypi_tracker |-> 0,
                   data_exporter |-> 0]]
(* no process in daemon mode.  bound: the number of the reload in which the
   object each name refers to was built, 0 for the objects of startup;
   clients: the exporters, by the same numbers, that were built with an
   InfluxDB client; closed: those whose client has been closed *)
NoDaemon ==
    [pc |-> "off", st_mtime |-> 0, opts |-> NoTasks.args, master_password |-> None,
     last_config_mtime |-> 0, config |-> EmptyDoc, github_tracker |-> FALSE,
     pypi_tracker |-> FALSE, data_exporter |-> NoExporter,
     bound |-> NoJob.ran_with, reloads |-> 0, jobs |-> 0, status |-> 0, job |-> NoJob,
     clients |-> {}, closed |-> {}]

(* The cached fetch methods of one GitHubTracker.  cache: for each call
   signature the entry its TTLCache holds; answered: the time of the last
   200 answer GitHub gave to that call, -1 for none, what the method made of
   it, and whether the latest request failed; call: the last call made *)
FetchKeys == {"fetch_repos", "fetch_branches_count"}
NoEntry == [present |-> FALSE, expires |-> 0, val |-> <<>>]
NoAnswer == [t |-> -1, val |-> <<>>, failed |-> FALSE]
NoFetch ==
    [cache |-> [k \in FetchKeys |-> NoEntry],
     answered |-> [k \in FetchKeys |-> NoAnswer],
     call |-> [key |-> "none", at |-> 0, http |-> 0, response |-> "none",
               raised |-> None, val |-> <<>>, message |-> <<>>, prior |-> NoAnswer]]

(* no call of a PyPITracker method made yet *)
NoPackages ==
    [op |-> "none", packages |-> <<>>, pypi |-> <<>>, outcomes |-> <<>>,
     stats |-> [isNone |-> TRUE, keys |-> {}, calls |-> 0], results |-> <<>>]

---------------------------------------------------------------------------
(* Initial state: a fresh home directory and an empty secret store *)

Init ==
    /\ keyring = EmptyKeyring
    /\ now = 0
    /\ pre_keyring = EmptyKeyring
    /\ session_ret = None
    /\ salt_file = NoSalt
    /\ config_file = NoConfig
    /\ load_ret = NoLoad
    /\ gen_ret = NoGen
    /\ pc = "idle"
    /\ args = NoArgs
    /\ master_password = None
    /\ config = NoneConfig
    /\ exit_status = 0
    /\ run = NoRun
    /\ crypto = NoCall
    /\ export = NoExport
    /\ api = <<>>
    /\ gh = NoIssues
    /\ tasks = NoTasks
    /\ daemon = NoDaemon
    /\ fetch = NoFetch
    /\ pkgs = NoPackages
    /\ lastOp = "init"

---------------------------------------------------------------------------
(* The session operations as free-standing actions *)

(* create_session(p) for a password p of P; it is only ever called with a
   password that loaded the configuration, so never with the empty one *)
CreateSessionOf(P) ==
    \E p \in P \ {""}, f1 \in BOOLEAN, f2 \in BOOLEAN :
        /\ keyring' = create_session(keyring, p, now, f1, f2)
        /\ pre_keyring' = keyring
        /\ session_ret' = None
        /\ lastOp' = "create_session"
        /\ load_ret' = NoLoad
        /\ gen_ret' = NoGen
        /\ UNCHANGED <<now, fileVars, mainVars, extVars>>

CreateSession == CreateSessionOf(Passwords)

CheckSession ==
    LET r == check_session(keyring, now)
    IN  /\ keyring' = r.keyring
        /\ session_ret' = r.ret
        /\ pre_keyring' = keyring
        /\ lastOp' = "check_session"
        /\ load_ret' = NoLoad
        /\ gen_ret' = NoGen
        /\ UNCHANGED <<now, fileVars, mainVars, extVars>>

ClearSession ==
    /\ keyring' = clear_session(keyring)
    /\ pre_keyring' = keyring
    /\ session_ret' = None
    /\ lastOp' = "clear_session"
    /\ load_ret' = NoLoad
    /\ gen_ret' = NoGen
    /\ UNCHANGED <<now, fileVars, mainVars, extVars>>

(* Time passes *)
Wait(d) ==
    /\ now + d <= MaxTime
    /\ now' = now + d
    /\ pre_keyring' = keyring
    /\ session_ret' = None
    /\ lastOp' = "wait"
    /\ load_ret' = NoLoad
    /\ gen_ret' = NoGen
    /\ UNCHANGED <<keyring, fileVars, mainVars, extVars>>

Tick == Wait(1)

(* The secret store is edited outside the program: the timestamp entry is
   overwritten with something that is not the JSON record, or the password
   entry is removed *)
KeyringEdit ==
    /\ \/ keyring' = [keyring EXCEPT !.session_timestamp = GarbageEntry]
       \/ /\ keyring.master_password # None
          /\ keyring' = [keyring EXCEPT !.master_password = None]
    /\ pre_keyring' = keyring'
    /\ session_ret' = None
    /\ lastOp' = "keyring_edit"
    /\ load_ret' = NoLoad
    /\ gen_ret' = NoGen
    /\ UNCHANGED <<now, fileVars, mainVars, extVars>>

NextSession == CreateSession \/ CheckSession \/ ClearSession \/ Tick \/ KeyringEdit

SpecSession == Init /\ [][NextSession]_vars

---------------------------------------------------------------------------
(* The configuration operations as free-standing actions *)

DefaultInput ==
    [newSalt |-> 1, io |-> "ok", include |-> {}, smtp |-> FALSE,
     secret |-> Tok, packages |-> PkgA, gateway |-> Gw]

(* The inputs one call can consume with the password and the files as they
   are: nothing is read with an empty password; os.urandom is called only when
   there is no salt; no question is asked once the salt or the document could
   not be read; the user is asked only about sections the document lacks, and
   about SMTP only when the document has none *)
GenInputs(password, sf, cf) ==
    LET doc == IF cf.exists THEN cf.doc ELSE EmptyDoc
        salts == IF sf.exists THEN {sf.bytes} ELSE 1..MaxSalts
    IN  IF ~Truthy(password) THEN {DefaultInput}
        ELSE IF cf.exists /\ ~cf.yaml_ok
          THEN {[DefaultInput EXCEPT !.io = "salt_fail"]}
               \cup {[DefaultInput EXCEPT !.newSalt = n] : n \in salts}
        ELSE {[DefaultInput EXCEPT !.io = "salt_fail"]}
             \cup {[DefaultInput EXCEPT !.io = "config_read_fail", !.newSalt = n] :
                     n \in salts}
             \cup [newSalt : salts,
                   io      : {"ok", "config_write_fail"},
                   include : SUBSET missing_sections(doc),
                   smtp    : IF doc["smtp"].present THEN {FALSE} ELSE BOOLEAN,
                   secret  : Secrets,
                   packages : IF doc["pypi"].present THEN {PkgA} ELSE Packages,
                   gateway : Gateways]

(* load_config prompts only when it has to generate the configuration;
   otherwise its only input is whether the file can be read *)
LoadInputs(password, sf, cf) ==
    IF cf.exists
      THEN {DefaultInput, [DefaultInput EXCEPT !.io = "config_read_fail"]}
      ELSE GenInputs(password, sf, cf)

(* The passwords tried in the free-standing configuration operations: one
   master password and the empty entry *)
ConfigPasswords == {"", "p1"}

(* generate_default_config, called with a password of P *)
GenerateDefaultConfigOf(P) ==
    \E pw \in P : \E in \in GenInputs(pw, salt_file, config_file) :
        \E g \in {generate_default_config(pw, salt_file, config_file, in)} :
            /\ salt_file' = g.salt_file
            /\ config_file' = g.config_file
            /\ gen_ret' = g
            /\ load_ret' = NoLoad
            /\ pre_keyring' = keyring
            /\ session_ret' = None
            /\ lastOp' = "generate_default_config"
            /\ UNCHANGED <<keyring, now, mainVars, extVars>>

GenerateDefaultConfig == GenerateDefaultConfigOf(ConfigPasswords)

(* load_config, called with a password of P: by main() at startup and by the
   daemon job when it reloads the configuration *)
LoadConfigOf(P) ==
    \E pw \in P : \E in \in LoadInputs(pw, salt_file, config_file) :
        \E l \in {load_config(pw, salt_file, config_file, in)} :
            /\ salt_file' = l.salt_file
            /\ config_file' = l.config_file
            /\ load_ret' = LoadObs(l, pw, in)
            /\ gen_ret' = l.gen
            /\ pre_keyring' = keyring
            /\ session_ret' = None
            /\ lastOp' = "load_config"
            /\ UNCHANGED <<keyring, now, mainVars, extVars>>

LoadConfig == LoadConfigOf(ConfigPasswords)

(* The salt file is removed outside the program *)
SaltFileLost ==
    /\ salt_file.exists
    /\ salt_file' = NoSalt
    /\ load_ret' = NoLoad
    /\ gen_ret' = NoGen
    /\ pre_keyring' = keyring
    /\ session_ret' = None
    /\ lastOp' = "salt_lost"
    /\ UNCHANGED <<config_file, keyring, now, mainVars, extVars>>

(* The configuration file is edited outside the program and is no longer
   a YAML document *)
ConfigFileCorrupted ==
    /\ config_file.exists /\ config_file.yaml_ok
    /\ config_file' = [config_file EXCEPT !.yaml_ok = FALSE]
    /\ load_ret' = NoLoad
    /\ gen_ret' = NoGen
    /\ pre_keyring' = keyring
    /\ session_ret' = None
    /\ lastOp' = "config_corrupted"
    /\ UNCHANGED <<salt_file, keyring, now, mainVars, extVars>>

NextConfig ==
    \/ GenerateDefaultConfig \/ LoadConfig \/ SaltFileLost \/ ConfigFileCorrupted
    \/ CreateSessionOf(ConfigPasswords) \/ CheckSession \/ ClearSession

SpecConfig == Init /\ [][NextConfig]_vars

(* The two operations alone, called with any non-empty password, the files
   being touched by nothing else *)
SpecPasswords ==
    Init /\ [][GenerateDefaultConfigOf(Passwords \ {""})
                 \/ LoadConfigOf(Passwords \ {""})]_vars

---------------------------------------------------------------------------
(* DataExporter: _export_helper.py.  The InfluxDB server and the Pushgateway
   are outside the program: a call is given the number of leading attempts
   that the transport fails (fails), so that attempt a succeeds iff a > fails. *)

max_retries == 3

(* @retry(max_retries=3, backoff=2.0): the decorated body is run again after
   an exception, max_retries times at most, and the exception of the last run
   propagates; outs[a] is the outcome of the a-th run of the body *)
retry(outs) ==
    LET good == {a \in 1..max_retries : ~outs[a].raised}
        last == IF good = {} THEN max_retries
                ELSE CHOOSE a \in good : \A b \in good : a <= b
    IN  [result |-> outs[last], calls |-> last]

(* lines 184-198 as they would be if the handler reported the failure by its
   return value *)
influx_body_returning_false(configured, ok) ==
    IF ~configured THEN [raised |-> FALSE, ret |-> FALSE, writes |-> 0]
    ELSE IF ok THEN [raised |-> FALSE, ret |-> TRUE, writes |-> 1]
    ELSE [raised |-> FALSE, ret |-> FALSE, writes |-> 1]

(* lines 184-198, the body of export_to_influx_batch: configured is
   "influx_config and write_api are set", ok the outcome of write_api.write *)
influx_body(configured, ok) ==
    IF ~configured THEN [raised |-> FALSE, ret |-> FALSE, writes |-> 0]
    ELSE IF ok THEN [raised |-> FALSE, ret |-> TRUE, writes |-> 1]
    ELSE [raised |-> TRUE, ret |-> FALSE, writes |-> 1]

(* export_to_influx_batch with its decorator: calls counts the runs of the
   body, writes the write_api.write calls *)
export_to_influx_batch(configured, fails) ==
    LET outs == [a \in 1..(max_retries + 1) |-> influx_body(configured, a > fails)]
        r == retry(outs)
    IN  [raised |-> r.result.raised, ret |-> r.result.ret, calls |-> r.calls,
         writes |-> Cardinality({a \in 1..r.calls : outs[a].writes = 1})]

NoBatches == [success_count |-> 0, failure_count |-> 0, log |-> <<>>]

(* lines 224-231 as they would be with the try around the loop *)
RECURSIVE batch_loop_try_outside(_, _, _, _)
batch_loop_try_outside(configured, fails, idx, acc) ==
    IF idx > Len(fails) THEN acc
    ELSE LET r == export_to_influx_batch(configured, fails[idx])
             log == Append(acc.log, [batch |-> idx, calls |-> r.calls,
                                     writes |-> r.writes, raised |-> r.raised])
         IN  IF r.raised
               THEN [success_count |-> acc.success_count,
                     failure_count |-> acc.failure_count + 1, log |-> log]
               ELSE batch_loop_try_outside(configured, fails, idx + 1,
                        [success_count |-> acc.success_count + 1,
                         failure_count |-> acc.failure_count, log |-> log])

process_batches_try_outside(configured, fails) ==
    batch_loop_try_outside(configured, fails, 1, NoBatches)

(* lines 224-231: the loop over the batches; log records every call of
   export_to_influx_batch in the order made *)
RECURSIVE batch_loop(_, _, _, _)
batch_loop(configured, fails, idx, acc) ==
    IF idx > Len(fails) THEN acc
    ELSE LET r == export_to_influx_batch(configured, fails[idx])
             log == Append(acc.log, [batch |-> idx, calls |-> r.calls,
                                     writes |-> r.writes, raised |-> r.raised])
         IN  batch_loop(configured, fails, idx + 1,
                 IF r.raised
                   THEN [success_count |-> acc.success_count,
                         failure_count |-> acc.failure_count + 1, log |-> log]
                   ELSE [success_count |-> acc.success_count + 1,
                         failure_count |-> acc.failure_count, log |-> log])

(* process_batches: fails[i] belongs to the i-th batch *)
process_batches(configured, fails) ==
    IF fails = <<>> THEN NoBatches
    ELSE batch_loop(configured, fails, 1, NoBatches)

(* lines 278-307 as they would be without the test of self.outputs *)
prometheus_body_unrequested(requested, prometheus_config, labels, ok) ==
    IF ~prometheus_config.present
      THEN [raised |-> FALSE, pushes |-> 0, delivered |-> <<>>]
    ELSE IF ok
      THEN [raised |-> FALSE, pushes |-> 1,
            delivered |-> <<[gateway |-> prometheus_config.gateway,
                             job |-> prometheus_config.job,
                             gauges |-> 1, labelled |-> labels]>>]
    ELSE [raised |-> TRUE, pushes |-> 1, delivered |-> <<>>]

(* lines 278-307, the body of export_to_prometheus: requested is
   "prometheus" in self.outputs, ok the outcome of push_to_gateway; what is
   delivered is one registry holding one gauge *)
prometheus_body(requested, prometheus_config, labels, ok) ==
    IF ~requested
      THEN [raised |-> FALSE, pushes |-> 0, delivered |-> <<>>]
    ELSE IF ~prometheus_config.present
      THEN [raised |-> FALSE, pushes |-> 0, delivered |-> <<>>]
    ELSE IF ok
      THEN [raised |-> FALSE, pushes |-> 1,
            delivered |-> <<[gateway |-> prometheus_config.gateway,
                             job |-> prometheus_config.job,
                             gauges |-> 1, labelled |-> labels]>>]
    ELSE [raised |-> TRUE, pushes |-> 1, delivered |-> <<>>]

(* export_to_prometheus with its decorator: calls counts the runs of the body,
   pushes the push_to_gateway calls *)
export_to_prometheus(requested, prometheus_config, labels, fails) ==
    LET outs == [a \in 1..(max_retries + 1) |->
                    prometheus_body(requested, prometheus_config, labels, a > fails)]
        r == retry(outs)
    IN  [raised |-> r.result.raised, calls |-> r.calls,
         pushes |-> Cardinality({a \in 1..r.calls : outs[a].pushes = 1}),
         delivered |-> r.result.delivered]

ExportToPrometheus ==
    /\ \E requested \in BOOLEAN, cfg \in PrometheusConfigs, labels \in BOOLEAN,
          fails \in 0..MaxFails :
       \E r \in {export_to_prometheus(requested, cfg, labels, fails)} :
          export' = [NoExport EXCEPT !.op = "export_to_prometheus",
                                     !.requested = requested,
                                     !.prometheus_config = cfg,
                                     !.labels = labels, !.fails = <<fails>>,
                                     !.raised = r.raised, !.calls = r.calls,
                                     !.pushes = r.pushes,
                                     !.delivered = r.delivered]
    /\ lastOp' = "export_to_prometheus"
    /\ UNCHANGED <<coreVars, crypto, runVars, trackVars>>

(* process_batches called with up to MaxBatches batches, each of which is
   written at once, written by the last attempt allowed, or never *)
ProcessBatches ==
    /\ \E configured \in BOOLEAN, n \in 0..MaxBatches :
       \E fails \in [1..n -> {0, max_retries - 1, MaxFails}] :
       \E r \in {process_batches(configured, fails)} :
          export' = [NoExport EXCEPT !.op = "process_batches",
                                     !.configured = configured, !.fails = fails,
                                     !.success_count = r.success_count,
                                     !.failure_count = r.failure_count,
                                     !.log = r.log]
    /\ lastOp' = "process_batches"
    /\ UNCHANGED <<coreVars, crypto, runVars, trackVars>>

NextExport == ProcessBatches \/ ExportToPrometheus

SpecExport == Init /\ [][NextExport]_vars

---------------------------------------------------------------------------
(* derive_key, encrypt_data and decrypt_data called on their own, as the tests
   of test_utilities.py call them *)

(* one-, two- and three-byte characters: a, e-acute, the euro sign *)
CodePoints == {97, 233, 8364}
RECURSIVE TextsOfLen(_)
TextsOfLen(n) ==
    IF n = 0 THEN {<<>>}
    ELSE {<<c>> \o t : c \in CodePoints, t \in TextsOfLen(n - 1)}
Texts == UNION {TextsOfLen(n) : n \in 1..MaxTextLen}

PasswordArgs == Passwords \cup {None}
SaltArgs == {NotBytes} \cup (0..MaxSalts)

DeriveKey ==
    /\ \E p \in PasswordArgs, s \in SaltArgs :
       \E k \in {derive_key(p, s)} :
          crypto' = [NoCall EXCEPT !.op = "derive_key", !.password = p,
                                   !.salt = s, !.key = k.key, !.raised = k.raised]
    /\ lastOp' = "derive_key"
    /\ UNCHANGED <<coreVars, export, runVars, trackVars>>

(* a text is encrypted under the key of a password and a salt *)
EncryptData ==
    /\ \E m \in Texts, p \in Passwords \ {""}, s \in 1..MaxSalts :
       \E k \in {derive_key(p, s)} :
          crypto' = [NoCall EXCEPT !.op = "encrypt_data", !.password = p,
                                   !.salt = s, !.key = k.key, !.m = m,
                                   !.token = encrypt_data(m, k.key)]
    /\ lastOp' = "encrypt_data"
    /\ UNCHANGED <<coreVars, export, runVars, trackVars>>

(* the token of the last encrypt_data, as it is or with a character changed,
   is decrypted under a key derived anew *)
DecryptData ==
    /\ crypto.op = "encrypt_data"
    /\ \E p \in Passwords \ {""}, s \in 1..MaxSalts, c \in BOOLEAN :
       \E k \in {derive_key(p, s)} :
       \E d \in {decrypt_data(IF c THEN Corrupted(crypto.token) ELSE crypto.token,
                              k.key)} :
          crypto' = [crypto EXCEPT !.op = "decrypt_data", !.corrupted = c,
                                   !.dpassword = p, !.dsalt = s, !.dkey = k.key,
                                   !.raised = d.raised, !.ret = d.data]
    /\ lastOp' = "decrypt_data"
    /\ UNCHANGED <<coreVars, export, runVars, trackVars>>

NextCrypto == DeriveKey \/ EncryptData \/ DecryptData

SpecCrypto == Init /\ [][NextCrypto]_vars

---------------------------------------------------------------------------
(* Startup of one process: main() of colter.py, lines 117-216.  A process is
   launched with its command line, runs to its exit, and the next one can be
   launched; the keyring and the files outlive it. *)

Args == [logout : BOOLEAN, help : BOOLEAN, generate_config : BOOLEAN]

(* the coarser clock of the startup model: two steps make one session *)
HalfSession == SESSION_DURATION \div 2

(* what the user of the startup model answers when a configuration is
   generated: the GitHub and PyPI sections may be accepted, the others are
   declined *)
MainSections == {"github", "pypi"}
MainAnswer(in) ==
    /\ in.newSalt = 1 /\ in.packages = PkgA
    /\ in.include \subseteq MainSections /\ ~in.smtp
MainInputs(password, sf, cf) == {in \in LoadInputs(password, sf, cf) : MainAnswer(in)}
MainGenInputs(password, sf, cf) == {in \in GenInputs(password, sf, cf) : MainAnswer(in)}

(* lines 146-177: the timestamp entry is read again to report the time left *)
cached_session_info(kr) ==
    IF kr.session_timestamp.kind = "json" THEN "ok"
    ELSE IF kr.session_timestamp.kind = "garbage" THEN "parse_error"
    ELSE "missing"

(* the store as line 146 can find it: as check_session left it, or with the
   timestamp entry rewritten or deleted by another process in between *)
reread_stores(kr) ==
    {kr, [kr EXCEPT !.session_timestamp = GarbageEntry],
         [kr EXCEPT !.session_timestamp = AbsentEntry]}

(* main() as it would be if it went on whatever load_config gave *)
after_load_unchecked(l) == "ok"

(* lines 188-193, 201-205, 208-212: an exception of load_config is not caught
   (the process dies with a traceback), a falsy result aborts with status 1 *)
after_load(l) ==
    IF l.raised # None THEN "crash"
    ELSE IF NoConfigLoaded(l) THEN "abort"
    ELSE "ok"

(* line 192 as it would be if a failed cached load kept the session *)
abort_keeping_session(kr) == kr

(* line 192: a cached password that loads nothing ends the session *)
abort_cached_session(kr) == clear_session(kr)

(* what main() holds in config after the call, and whether it is a
   configuration *)
Loaded(l) == [isNone |-> NoConfigLoaded(l), doc |-> l.config]
GaveConfig(l) == l.raised = None /\ ~NoConfigLoaded(l)

Launch ==
    /\ pc = "idle"
    /\ \E a \in Args : args' = a
    /\ pc' = "start"
    /\ run' = NoRun
    /\ master_password' = None
    /\ config' = NoneConfig
    /\ pre_keyring' = keyring
    /\ session_ret' = None
    /\ load_ret' = NoLoad
    /\ gen_ret' = NoGen
    /\ lastOp' = "launch"
    /\ UNCHANGED <<keyring, now, fileVars, exit_status, extVars>>

(* lines 119-124 *)
MainLogout ==
    /\ pc = "start"
    /\ args.logout
    /\ keyring' = clear_session(keyring)
    /\ pre_keyring' = keyring
    /\ pc' = "idle"
    /\ exit_status' = 0
    /\ session_ret' = None
    /\ load_ret' = NoLoad
    /\ gen_ret' = NoGen
    /\ lastOp' = "main_logout"
    /\ UNCHANGED <<now, fileVars, args, master_password, config, run, extVars>>

(* lines 126-129 *)
MainHelp ==
    /\ pc = "start"
    /\ ~args.logout /\ args.help
    /\ pc' = "idle"
    /\ exit_status' = 0
    /\ pre_keyring' = keyring
    /\ session_ret' = None
    /\ load_ret' = NoLoad
    /\ gen_ret' = NoGen
    /\ lastOp' = "main_help"
    /\ UNCHANGED <<keyring, now, fileVars, args, master_password, config, run, extVars>>

(* lines 141-180 and 195: the session is checked; with a valid one the
   timestamp is read again, and a timestamp that is gone or unreadable by then
   makes main() ask for the password after all (an empty answer leaves config
   unbound at line 218, and the process dies) *)
MainCheckSession ==
    /\ pc = "start"
    /\ ~args.logout /\ ~args.help
    /\ \E r \in {check_session(keyring, now)} :
        /\ session_ret' = r.ret
        /\ pre_keyring' = keyring
        /\ IF ~Truthy(r.ret)
             THEN /\ keyring' = r.keyring
                  /\ master_password' = None
                  /\ pc' = "prompt"
                  /\ run' = run
                  /\ exit_status' = exit_status
             ELSE \E k \in reread_stores(r.keyring) :
                  IF cached_session_info(k) = "ok"
                    THEN /\ keyring' = k
                         /\ master_password' = r.ret
                         /\ pc' = "cached"
                         /\ run' = [run EXCEPT !.cached = TRUE]
                         /\ exit_status' = exit_status
                  ELSE \E p \in Passwords :
                         /\ keyring' = IF cached_session_info(k) = "parse_error"
                                         THEN clear_session(k) ELSE k
                         /\ master_password' = p
                         /\ run' = [run EXCEPT !.cached = TRUE, !.prompted = TRUE]
                         /\ pc' = IF Truthy(p) THEN "cached" ELSE "idle"
                         /\ exit_status' = IF Truthy(p) THEN exit_status ELSE 1
    /\ load_ret' = NoLoad
    /\ gen_ret' = NoGen
    /\ lastOp' = "main_check_session"
    /\ UNCHANGED <<now, fileVars, args, config, extVars>>

(* lines 180-194: with the cached password --generate-config is refused, and
   the configuration is loaded without a prompt *)
MainCachedLoad ==
    /\ pc = "cached"
    /\ IF args.generate_config
         THEN /\ pc' = "idle"
              /\ exit_status' = 1
              /\ load_ret' = NoLoad
              /\ gen_ret' = NoGen
              /\ UNCHANGED <<keyring, fileVars, config, run, extVars>>
         ELSE \E in \in MainInputs(master_password, salt_file, config_file) :
              \E l \in {load_config(master_password, salt_file, config_file, in)} :
                /\ salt_file' = l.salt_file
                /\ config_file' = l.config_file
                /\ load_ret' = LoadObs(l, master_password, in)
                /\ gen_ret' = l.gen
                /\ run' = [run EXCEPT !.loaded = TRUE, !.load_pw = master_password,
                                      !.load_ok = GaveConfig(l)]
                /\ keyring' = IF after_load(l) = "abort"
                                THEN abort_cached_session(keyring) ELSE keyring
                /\ config' = IF after_load(l) = "ok" THEN Loaded(l) ELSE config
                /\ pc' = IF after_load(l) = "ok" THEN "run_tasks" ELSE "idle"
                /\ exit_status' = IF after_load(l) = "ok" THEN exit_status ELSE 1
    /\ pre_keyring' = keyring
    /\ session_ret' = None
    /\ lastOp' = "main_cached_load"
    /\ UNCHANGED <<now, args, master_password, extVars>>

(* line 197 *)
MainPrompt ==
    /\ pc = "prompt"
    /\ \E p \in Passwords : master_password' = p
    /\ run' = [run EXCEPT !.prompted = TRUE]
    /\ pc' = IF args.generate_config THEN "generate" ELSE "load"
    /\ pre_keyring' = keyring
    /\ session_ret' = None
    /\ load_ret' = NoLoad
    /\ gen_ret' = NoGen
    /\ lastOp' = "main_prompt"
    /\ UNCHANGED <<keyring, now, fileVars, args, config, exit_status, extVars>>

(* lines 199-200; the ValueError of an empty password is not caught *)
MainGenerate ==
    /\ pc = "generate"
    /\ \E in \in MainGenInputs(master_password, salt_file, config_file) :
       \E g \in {generate_default_config(master_password, salt_file, config_file, in)} :
        /\ salt_file' = g.salt_file
        /\ config_file' = g.config_file
        /\ gen_ret' = g
        /\ pc' = IF g.raised # None THEN "idle" ELSE "load"
        /\ exit_status' = IF g.raised # None THEN 1 ELSE exit_status
    /\ run' = [run EXCEPT !.generated = TRUE]
    /\ load_ret' = NoLoad
    /\ pre_keyring' = keyring
    /\ session_ret' = None
    /\ lastOp' = "main_generate"
    /\ UNCHANGED <<keyring, now, args, master_password, config, extVars>>

(* lines 201-213 *)
MainLoad ==
    /\ pc = "load"
    /\ \E in \in MainInputs(master_password, salt_file, config_file) :
       \E l \in {load_config(master_password, salt_file, config_file, in)} :
        /\ salt_file' = l.salt_file
        /\ config_file' = l.config_file
        /\ load_ret' = LoadObs(l, master_password, in)
        /\ gen_ret' = l.gen
        /\ run' = [run EXCEPT !.loaded = TRUE, !.load_pw = master_password,
                              !.load_ok = GaveConfig(l),
                              !.generated = (run.generated \/ l.gen.ran)]
        /\ config' = IF after_load(l) = "ok" THEN Loaded(l) ELSE config
        /\ pc' = IF after_load(l) = "ok" THEN "create_session" ELSE "idle"
        /\ exit_status' = IF after_load(l) = "ok" THEN exit_status ELSE 1
    /\ pre_keyring' = keyring
    /\ session_ret' = None
    /\ lastOp' = "main_load"
    /\ UNCHANGED <<keyring, now, args, master_password, extVars>>

(* lines 214-215 *)
MainCreateSession ==
    /\ pc = "create_session"
    /\ \E f1 \in BOOLEAN, f2 \in BOOLEAN :
        keyring' = create_session(keyring, master_password, now, f1, f2)
    /\ run' = [run EXCEPT !.session_created = TRUE]
    /\ pc' = "run_tasks"
    /\ pre_keyring' = keyring
    /\ session_ret' = None
    /\ load_ret' = NoLoad
    /\ gen_ret' = NoGen
    /\ lastOp' = "main_create_session"
    /\ UNCHANGED <<now, fileVars, args, master_password, config, exit_status, extVars>>

(* lines 217-435: the trackers are built and run, and the process ends *)
MainRunTasks ==
    /\ pc = "run_tasks"
    /\ run' = [run EXCEPT !.trackers = TRUE]
    /\ pc' = "idle"
    /\ exit_status' = 0
    /\ pre_keyring' = keyring
    /\ session_ret' = None
    /\ load_ret' = NoLoad
    /\ gen_ret' = NoGen
    /\ lastOp' = "main_run_tasks"
    /\ UNCHANGED <<keyring, now, fileVars, args, master_password, config, extVars>>

WaitHalf == Wait(HalfSession)

NextMain ==
    \/ Launch \/ MainLogout \/ MainHelp \/ MainCheckSession \/ MainCachedLoad
    \/ MainPrompt \/ MainGenerate \/ MainLoad \/ MainCreateSession
    \/ MainRunTasks \/ WaitHalf \/ KeyringEdit \/ SaltFileLost

SpecMain == Init /\ [][NextMain]_vars

---------------------------------------------------------------------------
(* Properties of the session cache, under SpecSession *)

PreTs == pre_keyring.session_timestamp
Elapsed == now - PreTs.t

(* C1: a check_session that finds the timestamp T written by create_session
   and a stored password returns that password while now - T < 30 minutes and
   None from 30 minutes on; a check that succeeds leaves both entries as they
   were, and no check ever stores a timestamp other than the one it found. *)
C1_SessionValidity ==
    lastOp = "check_session" =>
        /\ keyring.session_timestamp \in {PreTs, AbsentEntry}
        /\ (PreTs.kind = "json" /\ Truthy(pre_keyring.master_password)) =>
              /\ Elapsed < SESSION_DURATION =>
                    session_ret = pre_keyring.master_password /\ keyring = pre_keyring
              /\ Elapsed >= SESSION_DURATION => session_ret = None

C1_Witness ==
    /\ lastOp = "check_session"
    /\ PreTs.kind = "json"
    /\ PreTs.t > 0
    /\ Elapsed = SESSION_DURATION - 1
    /\ session_ret = "p2"

(* C2: a check_session that finds an expired or unparsable timestamp returns
   None and leaves neither entry in the store; one that finds no timestamp
   returns None and leaves the store as it was. *)
C2_InvalidSessionCleared ==
    lastOp = "check_session" =>
        /\ (PreTs.kind = "garbage"
              \/ (PreTs.kind = "json" /\ Elapsed >= SESSION_DURATION)) =>
              session_ret = None /\ keyring = EmptyKeyring
        /\ PreTs.kind = "absent" =>
              session_ret = None /\ keyring = pre_keyring

C2_Witness ==
    /\ lastOp = "check_session"
    /\ PreTs.kind = "json"
    /\ Elapsed = SESSION_DURATION
    /\ pre_keyring.master_password = "p1"
    /\ keyring = EmptyKeyring

---------------------------------------------------------------------------
(* Properties of the configuration files, under SpecConfig *)

SensitiveSections == {"github", "smtp", "influxdb"}
ConfigOps == {"generate_default_config", "load_config"}
DocOf(cf) == IF cf.exists THEN cf.doc ELSE EmptyDoc

(* C6: in every state the sensitive fields of the document on disk
   (github.token, influxdb.token, smtp.password) are tokens made by
   encrypt_data, and a configuration returned by load_config holds them
   decrypted: the plaintext exists in the returned copy only. *)
C6_SecretsEncryptedOnDisk ==
    /\ \A s \in SensitiveSections :
          DocOf(config_file)[s].present =>
              /\ DocOf(config_file)[s].val.enc
              /\ DocOf(config_file)[s].val =
                    encrypt_data(decode(DocOf(config_file)[s].val.m).text,
                                 DocOf(config_file)[s].val.key)
    /\ (lastOp = "load_config" /\ load_ret.raised = None /\ ~load_ret.isNone) =>
          \A s \in SensitiveSections :
              load_ret.config[s].present => ~load_ret.config[s].val.enc

C6_Witness ==
    /\ lastOp = "load_config"
    /\ load_ret.raised = None /\ ~load_ret.isNone
    /\ load_ret.decrypts = 3
    /\ config_file.doc["smtp"].val.enc

(* C7: once the salt file exists no operation of the program changes or
   removes it (only its removal from outside does), and a call of
   generate_default_config draws a salt only when it found none. *)
C7_SaltImmutable ==
    [][/\ (salt_file.exists /\ lastOp' # "salt_lost") => salt_file' = salt_file
       /\ (lastOp' \in ConfigOps /\ gen_ret'.ran /\ gen_ret'.salt_created) =>
              ~salt_file.exists]_vars

C7_Witness ==
    /\ lastOp = "generate_default_config"
    /\ gen_ret.wrote
    /\ ~gen_ret.salt_created
    /\ salt_file.exists

(* C8: generate_default_config leaves every section the document already had
   as it was, adds only sections the user agreed to, and with github, pypi,
   influxdb and prometheus all present asks nothing and writes nothing. *)
C8_ExistingSectionsKept ==
    [][lastOp' \in ConfigOps =>
        LET old == DocOf(config_file)
            new == DocOf(config_file')
        IN  /\ config_file.exists => config_file'.exists
            /\ \A s \in Sections :
                  /\ old[s].present => new[s] = old[s]
                  /\ (new[s].present /\ ~old[s].present) => s \in gen_ret'.accepted
            /\ (gen_ret'.ran /\ CoreSections \cap {s \in Sections : ~old[s].present} = {}) =>
                  /\ ~gen_ret'.prompted
                  /\ ~gen_ret'.wrote
                  /\ config_file' = config_file]_vars

C8_Witness ==
    /\ lastOp = "generate_default_config"
    /\ gen_ret.wrote
    /\ gen_ret.accepted = {"influxdb", "smtp"}
    /\ config_file.doc["github"].present
    /\ config_file.doc["pypi"].val.m = PkgB

(* C9: whenever generate_default_config runs with a non-empty password, no
   file error, on a document that has a github section (already there or
   configured in this call) and no smtp section, the SMTP question is asked,
   and an accepted SMTP section is written with its password encrypted. *)
C9_SmtpOffered ==
    [][(/\ lastOp' = "generate_default_config"
        /\ gen_ret'.raised = None
        /\ gen_ret'.io = "ok"
        /\ (DocOf(config_file)["github"].present \/ "github" \in gen_ret'.accepted)
        /\ ~DocOf(config_file)["smtp"].present)
       => /\ gen_ret'.smtp_asked
          /\ "smtp" \in gen_ret'.accepted =>
                /\ DocOf(config_file')["smtp"].present
                /\ DocOf(config_file')["smtp"].val.enc]_vars

(* C10: load_config with the configuration file present and the salt file
   absent raises ConfigError (no None result), calls decrypt_data not once and
   leaves the configuration file, the missing salt and the secret store as
   they were. *)
C10_MissingSaltRaises ==
    [][(lastOp' = "load_config" /\ config_file.exists /\ ~salt_file.exists) =>
          /\ load_ret'.raised = "ConfigError"
          /\ ~load_ret'.isNone
          /\ load_ret'.decrypts = 0
          /\ config_file' = config_file
          /\ salt_file' = salt_file
          /\ keyring' = keyring]_vars

C10_Witness ==
    /\ lastOp = "load_config"
    /\ load_ret.raised = "ConfigError"
    /\ config_file.exists
    /\ config_file.doc["github"].present
    /\ ~salt_file.exists
    /\ keyring.master_password = "p1"


(* C11: with the configuration file and the salt file present load_config
   raises nothing and leaves the files and the secret store as they were; it
   returns None when the password is empty, when the document cannot be read
   or parsed, or when a present field among github.token, smtp.password and
   influxdb.token is not a token under the key of (password, salt); any other
   call returns the document with every present sensitive field decrypted and
   the rest as stored, never a document decrypted in part. *)
C11_FailedLoadGivesNone ==
    [][(lastOp' = "load_config" /\ config_file.exists /\ salt_file.exists) =>
          LET doc == config_file.doc
              k == <<load_ret'.password, salt_file.bytes>>
              undecryptable ==
                  {s \in SensitiveSections :
                      doc[s].present /\ ~(doc[s].val.enc /\ doc[s].val.key = k)}
              bad == \/ ~Truthy(load_ret'.password)
                     \/ ~config_file.yaml_ok
                     \/ load_ret'.io = "config_read_fail"
                     \/ undecryptable # {}
          IN  /\ load_ret'.raised = None
              /\ UNCHANGED fileVars
              /\ keyring' = keyring
              /\ bad <=> load_ret'.isNone
              /\ ~load_ret'.isNone =>
                    \A s \in Sections :
                        load_ret'.config[s] =
                            IF s \in SensitiveSections /\ doc[s].present
                              THEN Section(Plain(decode(doc[s].val.m).text))
                              ELSE doc[s]]_vars

(* github.token decrypts, influxdb.token was written under another salt: the
   load stops at the second decrypt_data and returns None *)
C11_Witness ==
    /\ lastOp = "load_config"
    /\ config_file.exists /\ salt_file.exists /\ config_file.yaml_ok
    /\ load_ret.password = "p1" /\ load_ret.io = "ok"
    /\ load_ret.decrypts = 2
    /\ load_ret.isNone /\ load_ret.raised = None

---------------------------------------------------------------------------
(* Properties of the secret functions, under SpecCrypto *)

(* C12: a non-empty text encrypted under a derived key and decrypted under
   the same key comes back as it was; decrypt_data under any other key, or of
   a token that was changed, raises and returns no value. *)
C12_RoundTrip ==
    crypto.op = "decrypt_data" =>
        IF crypto.dkey = crypto.key /\ ~crypto.corrupted
          THEN crypto.raised = None /\ crypto.ret = crypto.m
          ELSE crypto.raised # None /\ crypto.ret = NoText

(* a text of a two-byte and a three-byte character makes the round trip *)
C12_Witness ==
    /\ crypto.op = "decrypt_data"
    /\ crypto.m = <<233, 8364>>
    /\ crypto.key = <<"p2", 1>> /\ crypto.dkey = crypto.key
    /\ ~crypto.corrupted
    /\ crypto.ret = crypto.m

(* C13: derive_key raises TypeError for a password that is no str or a salt
   that is no bytes, ValueError for an empty password or an empty salt, and
   returns a key for every other argument pair; a key derived again from the
   same password and salt is the key derived before. *)
C13_DeriveKeyErrors ==
    [][ /\ crypto'.op = "derive_key" =>
              crypto'.raised =
                  IF crypto'.password = None \/ crypto'.salt = NotBytes
                    THEN "TypeError"
                  ELSE IF crypto'.password = "" \/ crypto'.salt = 0
                    THEN "ValueError"
                  ELSE None
        /\ (crypto'.op = "derive_key" /\ crypto'.raised = None)
              <=> (crypto'.op = "derive_key" /\ crypto'.key # NoKey)
        /\ (crypto'.op = "decrypt_data" /\ crypto'.dpassword = crypto.password
                                        /\ crypto'.dsalt = crypto.salt)
              => crypto'.dkey = crypto.key
      ]_vars

C13_Witness ==
    /\ crypto.op = "derive_key"
    /\ crypto.password = "p1" /\ crypto.salt = 0
    /\ crypto.raised = "ValueError"
    /\ crypto.key = NoKey

---------------------------------------------------------------------------
(* Properties of the exporter, under SpecExport *)

(* C14: process_batches calls export_to_influx_batch once for every batch of
   the list, in the order of the list, whatever the earlier calls did, and the
   two counts it returns add up to the number of batches, the failures being
   the calls that raised; three batches of which the second fails on every
   attempt give (2, 1), the third batch having been written. *)
C14_EveryBatchAttempted ==
    export.op = "process_batches" =>
        /\ Len(export.log) = Len(export.fails)
        /\ \A i \in 1..Len(export.log) :
              /\ export.log[i].batch = i
              /\ export.log[i].calls >= 1
        /\ export.success_count + export.failure_count = Len(export.fails)
        /\ export.failure_count =
              Cardinality({i \in 1..Len(export.log) : export.log[i].raised})
        /\ (export.configured /\ export.fails = <<0, MaxFails, 0>>) =>
              /\ export.success_count = 2 /\ export.failure_count = 1
              /\ export.log[3].writes = 1

C14_Witness ==
    /\ export.op = "process_batches"
    /\ export.configured
    /\ export.fails = <<0, MaxFails, 0>>
    /\ export.log[2].raised
    /\ export.success_count = 2 /\ export.failure_count = 1
    /\ Len(export.log) = 3 /\ export.log[3].writes = 1

(* C15: for one batch export_to_influx_batch makes at most 3 write attempts
   and none after the first that succeeds; when every attempt fails the
   exception reaches process_batches, which counts one failure for the batch
   and goes on with the batches after it. *)
C15_BoundedRetries ==
    export.op = "process_batches" =>
        \A i \in 1..Len(export.log) :
            LET e == export.log[i]
                f == export.fails[i]
            IN  /\ e.writes <= max_retries
                /\ e.writes = IF ~export.configured THEN 0
                              ELSE IF f < max_retries THEN f + 1 ELSE max_retries
                /\ e.raised <=> (export.configured /\ f >= max_retries)
                /\ (e.raised /\ i < Len(export.fails)) => export.log[i + 1].batch = i + 1
                /\ e.raised => export.failure_count >= 1

C15_Witness ==
    /\ export.op = "process_batches"
    /\ export.configured
    /\ export.fails = <<2, MaxFails, 0>>
    /\ export.log[1].writes = 3 /\ ~export.log[1].raised
    /\ export.log[2].writes = 3 /\ export.log[2].raised
    /\ export.log[3].writes = 1
    /\ export.success_count = 2 /\ export.failure_count = 1

(* C16: export_to_prometheus returns at once, with no push to the gateway,
   no exception and no second run, when "prometheus" is not among the outputs
   or the configuration has no prometheus section; in every other case a call
   that returns has delivered exactly one registry of one gauge to the
   configured gateway under the configured job name. *)
C16_PrometheusNoOp ==
    export.op = "export_to_prometheus" =>
        IF ~export.requested \/ ~export.prometheus_config.present
          THEN /\ export.pushes = 0 /\ export.delivered = <<>>
               /\ ~export.raised
               /\ export.calls = 1
          ELSE IF ~export.raised
            THEN /\ Len(export.delivered) = 1
                 /\ export.delivered[1].gauges = 1
                 /\ export.delivered[1].job = export.prometheus_config.job
                 /\ export.delivered[1].gateway = export.prometheus_config.gateway
            ELSE export.delivered = <<>>

(* not requested, although the gateway is configured and would fail *)
C16_Witness ==
    /\ export.op = "export_to_prometheus"
    /\ ~export.requested
    /\ export.prometheus_config.present
    /\ export.fails = <<MaxFails>>
    /\ export.pushes = 0 /\ ~export.raised /\ export.calls = 1

---------------------------------------------------------------------------
(* Properties of the startup, under SpecMain *)

NoSessionTimestamp(kr) == kr.session_timestamp.kind # "json"

(* a step stores a password or a timestamp record in the secret store *)
Written(kr, kr2) ==
    \/ kr2.master_password # kr.master_password /\ kr2.master_password # None
    \/ /\ kr2.session_timestamp # kr.session_timestamp
       /\ kr2.session_timestamp.kind = "json"

(* C3: --logout leaves both session entries absent whatever was stored before
   (an entry that was not there is no error), clearing again changes nothing,
   and the process ends with status 0 having neither loaded or generated a
   configuration nor run a tracker; once the timestamp record is gone only
   create_session brings one back, and until then every check_session returns
   None and startup goes to the password prompt. *)
C3_LogoutClearsSession ==
    [][ /\ lastOp' = "main_logout" =>
              /\ keyring' = EmptyKeyring
              /\ clear_session(keyring') = keyring'
              /\ check_session(keyring', now').ret = None
              /\ pc' = "idle" /\ exit_status' = 0
              /\ ~run'.loaded /\ ~run'.generated /\ ~run'.trackers
              /\ config' = NoneConfig
              /\ UNCHANGED fileVars
        /\ (NoSessionTimestamp(keyring) /\ ~NoSessionTimestamp(keyring'))
              => lastOp' = "main_create_session"
        /\ (lastOp' = "main_check_session" /\ NoSessionTimestamp(keyring))
              => session_ret' = None /\ pc' = "prompt"
      ]_vars

(* a logout that finds only the timestamp entry: the password entry was absent *)
C3_Witness ==
    /\ lastOp = "main_logout"
    /\ pre_keyring.master_password = None
    /\ pre_keyring.session_timestamp.kind = "json"
    /\ keyring = EmptyKeyring
    /\ exit_status = 0

(* C4: in a startup that found no valid session the password is asked first,
   generate_default_config runs next when --generate-config is given,
   load_config follows (and generates first when the configuration file is
   missing), and create_session is called only then: with the password entered
   in this run, after load_config returned a configuration for it, and before
   any tracker has run.  A load that fails ends the process with a non-zero
   status and the secret store untouched, and no step other than
   create_session stores a session entry. *)
C4_NoSessionStartupOrder ==
    [][ /\ lastOp' = "main_prompt" => ~run.cached /\ ~run.prompted /\ ~run.loaded
        /\ lastOp' = "main_generate" =>
              /\ run.prompted /\ ~run.loaded /\ args.generate_config
        /\ lastOp' = "main_load" =>
              /\ run.prompted /\ ~run.cached /\ ~run.session_created
              /\ args.generate_config => run.generated
              /\ ~config_file.exists => gen_ret'.ran
              /\ run'.load_pw = master_password
              /\ ~run'.load_ok =>
                    /\ pc' = "idle" /\ exit_status' # 0
                    /\ keyring' = keyring
        /\ lastOp' = "main_create_session" =>
              /\ run.prompted /\ run.load_ok /\ ~run.trackers
              /\ run.load_pw = master_password
              /\ ~config.isNone
              /\ \E f1 \in BOOLEAN, f2 \in BOOLEAN :
                    keyring' = create_session(keyring, master_password, now, f1, f2)
        /\ (lastOp' = "main_run_tasks" /\ ~run.cached) => run.session_created
        /\ Written(keyring, keyring') => lastOp' = "main_create_session"
      ]_vars

(* a whole startup with --generate-config: prompt, generation, load, session *)
C4_Witness ==
    /\ lastOp = "main_run_tasks"
    /\ args.generate_config
    /\ run.prompted /\ run.generated /\ run.load_ok /\ run.session_created
    /\ ~run.cached
    /\ keyring.master_password = run.load_pw
    /\ keyring.session_timestamp.kind = "json"

(* a startup from the cache: check_session returned the password and
   the timestamp was still readable, so that nothing was asked *)
FromCache == pc = "cached" /\ run.cached /\ ~run.prompted

(* C5 as stated: from a valid cached session the configuration is loaded with
   the cached password without a prompt, and startup then either goes on to the
   trackers or, when the cached password loads nothing, to the password
   prompt. *)
C5_CacheInvalidPrompts ==
    [][ (lastOp' = "main_cached_load" /\ FromCache /\ ~args.generate_config) =>
              /\ run'.loaded /\ run'.load_pw = master_password
              /\ ~run'.prompted
              /\ pc' \in {"run_tasks", "prompt"}
      ]_vars

(* C5: from a valid cached session startup takes the cached password and asks
   for none.  Without --generate-config it loads the configuration with that
   password and either goes on to the trackers, keeping the session and
   creating none, or ends the process with status 1: after clearing the
   session when load_config returned no configuration, with the session kept
   when load_config raised.  It never moves to the password prompt.  With
   --generate-config it ends with status 1 without loading anything. *)
C5_CachedStartup ==
    [][ /\ (lastOp' = "main_check_session" /\ pc' = "cached" /\ ~run'.prompted) =>
              /\ Truthy(session_ret') /\ master_password' = session_ret'
              /\ master_password' = keyring.master_password
              /\ keyring' = keyring
        /\ (lastOp' = "main_cached_load" /\ FromCache /\ ~args.generate_config) =>
              /\ run'.loaded /\ run'.load_pw = master_password
              /\ ~run'.prompted /\ ~run'.session_created
              /\ pc' # "prompt"
              /\ IF run'.load_ok
                   THEN /\ pc' = "run_tasks"
                        /\ keyring' = keyring
                        /\ config' = [isNone |-> FALSE, doc |-> load_ret'.config]
                   ELSE /\ pc' = "idle" /\ exit_status' = 1
                        /\ keyring' = IF load_ret'.raised = None
                                        THEN EmptyKeyring ELSE keyring
        /\ (lastOp' = "main_cached_load" /\ FromCache /\ args.generate_config) =>
              /\ ~run'.loaded /\ ~run'.prompted
              /\ pc' = "idle" /\ exit_status' = 1
              /\ keyring' = keyring
              /\ UNCHANGED fileVars
      ]_vars

(* a cached password that loads nothing: the session is cleared, exit 1 *)
C5_Witness ==
    /\ lastOp = "main_cached_load"
    /\ run.cached /\ ~run.prompted
    /\ run.loaded /\ ~run.load_ok
    /\ load_ret.raised = None
    /\ pre_keyring.master_password = "p1"
    /\ pre_keyring.session_timestamp.kind = "json"
    /\ keyring = EmptyKeyring
    /\ pc = "idle" /\ exit_status = 1

---------------------------------------------------------------------------
(* GitHubTracker.check_issues: _github_helper.py *)

(* lines 322-335 as they would be if one try block held the three requests:
   a failure of one of them leaves every count of the repository at 0 *)
check_repo_all_or_nothing(repo) ==
    LET ok == repo.branches.ok /\ repo.downloads.ok /\ repo.clones.ok
    IN  [row |-> [name |-> repo.name,
                  branches_count |-> IF ok THEN repo.branches.val ELSE 0,
                  downloads_count |-> IF ok THEN repo.downloads.val ELSE 0,
                  total_clones |-> IF ok THEN repo.clones.val[1] ELSE 0,
                  unique_clones |-> IF ok THEN repo.clones.val[2] ELSE 0],
         issues |-> IF repo.issues.ok THEN repo.issues.val ELSE 0]

(* lines 306-370, one repository: each of the three requests has its own
   try/except GitHubAPIError that leaves 0; the row is appended; the issues
   request counts the issues of a 200 answer and leaves none otherwise *)
check_repo(repo) ==
    [row |-> [name |-> repo.name,
              branches_count |-> IF repo.branches.ok THEN repo.branches.val ELSE 0,
              downloads_count |-> IF repo.downloads.ok THEN repo.downloads.val ELSE 0,
              total_clones |-> IF repo.clones.ok THEN repo.clones.val[1] ELSE 0,
              unique_clones |-> IF repo.clones.ok THEN repo.clones.val[2] ELSE 0],
     issues |-> IF repo.issues.ok THEN repo.issues.val ELSE 0]

(* lines 306-370: for repo in repos; issues_by_repo gets an entry only for a
   repository that has issues (line 364) *)
RECURSIVE repo_loop(_, _, _, _)
repo_loop(repos, i, repo_stats, issues_by_repo) ==
    IF i > Len(repos)
      THEN [repo_stats |-> repo_stats, issues_by_repo |-> issues_by_repo]
    ELSE LET r == check_repo(repos[i])
         IN  repo_loop(repos, i + 1, Append(repo_stats, r.row),
                       IF r.issues > 0
                         THEN Append(issues_by_repo,
                                     [repo |-> repos[i].name, n |-> r.issues,
                                      fake |-> FALSE])
                         ELSE issues_by_repo)

(* lines 374-381: the fake issue is appended to the issues of the first
   repository, or becomes its only issue *)
inject_fake(issues_by_repo, test_repo) ==
    IF \E j \in 1..Len(issues_by_repo) : issues_by_repo[j].repo = test_repo
      THEN LET j == CHOOSE k \in 1..Len(issues_by_repo) :
                        issues_by_repo[k].repo = test_repo
           IN  [issues_by_repo EXCEPT ![j] = [repo |-> test_repo,
                                               n |-> issues_by_repo[j].n + 1,
                                               fake |-> TRUE]]
      ELSE Append(issues_by_repo, [repo |-> test_repo, n |-> 1, fake |-> TRUE])

(* lines 224-247 as they would be without the try around _send_email *)
send_email_alert_unguarded(smtp_config, mail) ==
    IF ~smtp_config THEN [raised |-> None, emails |-> 0]
    ELSE IF mail # "ok" THEN [raised |-> "Exception", emails |-> 0]
    ELSE [raised |-> None, emails |-> 1]

(* send_email_alert and _send_email (lines 207-270): without an smtp section
   the error is printed and nothing is sent; otherwise the message is built
   and _send_email connects, starts TLS, logs in and sends; mail names the
   step of these that raises, "ok" when none does.  _send_email raises the
   exception again and the handler of lines 245-247 logs and prints it.
   emails: the messages the SMTP server accepted *)
send_email_alert(smtp_config, mail) ==
    LET _send_email == [raised |-> IF mail = "ok" THEN None ELSE "Exception",
                        emails |-> IF mail = "ok" THEN 1 ELSE 0]
    IN  IF ~smtp_config THEN [raised |-> None, emails |-> 0]
        ELSE [raised |-> None, emails |-> _send_email.emails]

(* lines 296-449.  alert: send_email_alert was called; emails: messages it
   handed to the SMTP server (none without an smtp section, lines 224-227);
   shown: the statistics table or the "No repositories found" line was
   printed, which comes after the alert *)
check_issues(in) ==
    IF ~in.fetch_ok
      THEN IssuesOut("GitHubAPIError", <<>>, <<>>, FALSE, FALSE, 0, FALSE)
    ELSE LET l == repo_loop(in.repos, 1, <<>>, <<>>)
             fake == in.test_email /\ in.repos # <<>>
             issues == IF fake THEN inject_fake(l.issues_by_repo, in.repos[1].name)
                               ELSE l.issues_by_repo
             alert == issues # <<>> /\ ~in.dry_run
             a == IF alert THEN send_email_alert(in.smtp, in.mail)
                           ELSE [raised |-> None, emails |-> 0]
         IN  IF a.raised # None
               THEN IssuesOut(a.raised, l.repo_stats, issues, fake, alert, 0, FALSE)
               ELSE IssuesOut(None, l.repo_stats, issues, fake, alert, a.emails, TRUE)

(* What GitHub can answer about the n-th repository it lists *)
RepoAnswers(n) ==
    [name : {<<96 + n>>},
     branches : {Answer(2), Failure(0)},
     downloads : {Answer(1), Failure(0)},
     clones : {Answer(<<3, 2>>), Failure(<<0, 0>>)},
     issues : {Answer(0), Answer(1), Failure(0)}]

(* A repository appears on GitHub, answering as one of A does *)
RepoCreatedOf(A) ==
    /\ Len(api) < MaxRepos
    /\ \E r \in A \cap RepoAnswers(Len(api) + 1) : api' = Append(api, r)
    /\ gh' = NoIssues
    /\ tasks' = NoTasks
    /\ lastOp' = "repo_created"
    /\ UNCHANGED <<coreVars, crypto, export, daemon, trackVars>>

(* The repository listed last is deleted on GitHub *)
RepoDeleted ==
    /\ api # <<>>
    /\ api' = SubSeq(api, 1, Len(api) - 1)
    /\ gh' = NoIssues
    /\ tasks' = NoTasks
    /\ lastOp' = "repo_deleted"
    /\ UNCHANGED <<coreVars, crypto, export, daemon, trackVars>>

(* check_issues called on a tracker; the listing request succeeds or fails;
   with an smtp section, the mail goes through or one step of it fails *)
CheckIssues ==
    \E fetch_ok \in BOOLEAN, test_email \in BOOLEAN, dry_run \in BOOLEAN,
       smtp \in BOOLEAN :
    \E mail \in IF smtp THEN {"ok", "connect", "starttls", "login", "send_message"}
                         ELSE {"ok"} :
        \E in \in {[fetch_ok |-> fetch_ok, repos |-> api, test_email |-> test_email,
                    dry_run |-> dry_run, smtp |-> smtp, mail |-> mail]} :
            /\ gh' = [op |-> "check_issues", in |-> in, out |-> check_issues(in)]
            /\ lastOp' = "check_issues"
            /\ UNCHANGED <<coreVars, crypto, export, api, tasks, daemon, trackVars>>

NextGithub ==
    \/ \E n \in 1..MaxRepos : RepoCreatedOf(RepoAnswers(n))
    \/ RepoDeleted
    \/ CheckIssues

SpecGithub == Init /\ [][NextGithub]_vars

(* the issues recorded for the repository called name, the fake one apart *)
RealIssues(issues_by_repo, name) ==
    IF \E j \in 1..Len(issues_by_repo) : issues_by_repo[j].repo = name
      THEN LET e == issues_by_repo[CHOOSE k \in 1..Len(issues_by_repo) :
                                     issues_by_repo[k].repo = name]
           IN  e.n - (IF e.fake THEN 1 ELSE 0)
      ELSE 0

(* C20: in check_issues every repository that was listed gets exactly one
   row of statistics, in the order listed; in that row a count whose request
   failed is 0 and the other counts are what the API answered; a repository
   whose issues request failed has no issues recorded; this holds for each
   repository whatever happened to the others. *)
C20_PerRepoDegradation ==
    (gh.op = "check_issues" /\ gh.out.raised = None) =>
        /\ Len(gh.out.repo_stats) = Len(gh.in.repos)
        /\ \A i \in 1..Len(gh.in.repos) :
             LET repo == gh.in.repos[i]
                 row == gh.out.repo_stats[i]
             IN  /\ row.name = repo.name
                 /\ row.branches_count =
                      (IF repo.branches.ok THEN repo.branches.val ELSE 0)
                 /\ row.downloads_count =
                      (IF repo.downloads.ok THEN repo.downloads.val ELSE 0)
                 /\ <<row.total_clones, row.unique_clones>> =
                      (IF repo.clones.ok THEN repo.clones.val ELSE <<0, 0>>)
                 /\ RealIssues(gh.out.issues_by_repo, repo.name) =
                      (IF repo.issues.ok THEN repo.issues.val ELSE 0)

(* the first repository's branches and issues requests fail, its other
   requests and every request about the second repository succeed *)
C20_Witness ==
    /\ gh.op = "check_issues" /\ gh.out.raised = None
    /\ Len(gh.in.repos) = 2
    /\ ~gh.in.repos[1].branches.ok /\ ~gh.in.repos[1].issues.ok
    /\ gh.in.repos[1].downloads.ok /\ gh.in.repos[1].clones.ok
    /\ gh.out.repo_stats[1].branches_count = 0
    /\ gh.out.repo_stats[1].downloads_count = 1
    /\ gh.out.repo_stats[1].total_clones = 3
    /\ gh.out.repo_stats[2].branches_count = 2
    /\ RealIssues(gh.out.issues_by_repo, PkgA) = 0
    /\ RealIssues(gh.out.issues_by_repo, PkgB) = 1

---------------------------------------------------------------------------
(* run_tasks and the two export functions: colter.py.  env is what the
   outside answers during one call: GitHub's repositories (repos) and whether
   it lists them (fetch_ok), whether the configuration has an smtp section,
   whether pypistats answers (stats_ok), and how many leading attempts of a
   write or push fail (sink_fails).  A request that failed fails again when
   it is repeated in the same call; one that succeeded is served from the
   TTL cache of the tracker. *)

(* PyPITracker: _pypi_helper.py.  The five statistics of pypistats, in
   the order fetch_pypi_stats asks for them *)
StatNames == <<"recent", "overall", "python_major", "python_minor", "system">>

(* lines 105-134 as they would be if each statistic were fetched and parsed
   under a handler of its own and left out when it fails *)
fetch_pypi_stats_partial(outcomes) ==
    LET good == {StatNames[i] : i \in {k \in 1..Len(StatNames) :
                                         outcomes[StatNames[k]] = "json"}}
    IN  [isNone |-> good = {}, keys |-> good, calls |-> Len(StatNames)]

(* fetch_pypi_stats, lines 105-134: outcomes tells for each statistic whether
   the pypistats call gives JSON text, gives text that json.loads rejects, or
   raises.  The five calls come first, then the five json.loads, all in one
   try whose handlers return None; calls counts the pypistats calls made *)
fetch_pypi_stats(outcomes) ==
    LET raising == {i \in 1..Len(StatNames) : outcomes[StatNames[i]] = "raises"}
        invalid == {i \in 1..Len(StatNames) : outcomes[StatNames[i]] = "invalid"}
        calls == IF raising = {} THEN Len(StatNames)
                 ELSE CHOOSE i \in raising : \A k \in raising : i <= k
    IN  IF raising # {} \/ invalid # {}
          THEN [isNone |-> TRUE, keys |-> {}, calls |-> calls]
          ELSE [isNone |-> FALSE, keys |-> {StatNames[i] : i \in 1..Len(StatNames)},
                calls |-> calls]

(* str.strip(): blanks, tabs and line ends are taken off both ends *)
RECURSIVE strip(_)
strip(text) ==
    IF text = <<>> THEN text
    ELSE IF Head(text) \in {9, 10, 13, 32} THEN strip(Tail(text))
    ELSE IF text[Len(text)] \in {9, 10, 13, 32}
      THEN strip(SubSeq(text, 1, Len(text) - 1))
    ELSE text

(* lines 154-168, the loop over self.packages: results is the dictionary in
   the order of its keys; pypi tells for each name what the PyPI API answers
   to the version request (fetch_package_version returns the version of a
   200 answer and None otherwise) and the outcomes of its statistics *)
RECURSIVE package_loop(_, _, _, _)
package_loop(packages, i, results, pypi) ==
    IF i > Len(packages) THEN results
    ELSE LET pkg_clean == strip(packages[i])
             version == IF pypi[pkg_clean].version.ok
                          THEN pypi[pkg_clean].version.val ELSE "Error"
             entry == [name |-> pkg_clean, version |-> version,
                       stats |-> fetch_pypi_stats(pypi[pkg_clean].stats)]
             at == {k \in 1..Len(results) : results[k].name = pkg_clean}
         IN  IF pkg_clean = <<>> THEN package_loop(packages, i + 1, results, pypi)
             ELSE package_loop(packages, i + 1,
                      IF at = {} THEN Append(results, entry)
                      ELSE [results EXCEPT ![CHOOSE k \in at : TRUE] = entry],
                      pypi)

(* check_packages as it would be if a version lookup that fails ended the
   loop: the entries made before it are all there is *)
check_packages_until_failure(packages, pypi) ==
    LET r == package_loop(packages, 1, <<>>, pypi)
        bad == {j \in 1..Len(r) : r[j].version = "Error"}
    IN  IF bad = {} THEN r
        ELSE SubSeq(r, 1, (CHOOSE j \in bad : \A k \in bad : j <= k) - 1)

(* PyPITracker.check_packages, which returns results after printing the
   table *)
check_packages(packages, pypi) == package_loop(packages, 1, <<>>, pypi)

(* lines 506-527 and 586-596: the repositories are listed and, for each, the
   branches and the downloads are fetched, with no handler around them *)
collect_github(wanted, env) ==
    IF ~wanted THEN [raised |-> None, repos |-> 0]
    ELSE IF ~env.fetch_ok THEN [raised |-> "GitHubAPIError", repos |-> 0]
    ELSE IF \E i \in 1..Len(env.repos) :
                ~env.repos[i].branches.ok \/ ~env.repos[i].downloads.ok
      THEN [raised |-> "GitHubAPIError", repos |-> 0]
    ELSE [raised |-> None, repos |-> Len(env.repos)]

(* process_influx_export: one point per repository and per package with
   statistics, written in batches of 10 *)
process_influx_export(opts, data_exporter, github_tracker, packages_info, env) ==
    LET g == collect_github(opts.type \in {"github", "all"} /\ github_tracker, env)
        p == IF opts.type \in {"pypi", "all"} /\ packages_info.packages > 0
                  /\ packages_info.stats
               THEN packages_info.packages ELSE 0
        points == g.repos + p
        b == process_batches(data_exporter.influx_config,
                             IF points > 0 THEN <<env.sink_fails>> ELSE <<>>)
        writes == IF b.log = <<>> THEN 0 ELSE b.log[1].writes
    IN  IF g.raised # None THEN [raised |-> g.raised, writes |-> 0]
        ELSE [raised |-> None, writes |-> writes]

(* lines 597-618 and 622-665: the export_to_prometheus calls made one after
   the other, n of them; the first that raises ends the function *)
RECURSIVE push_metrics(_, _, _, _)
push_metrics(data_exporter, requested, n, env) ==
    IF n = 0 THEN [raised |-> None, pushes |-> 0]
    ELSE LET e == export_to_prometheus(requested, data_exporter.prometheus_config,
                                       TRUE, env.sink_fails)
             rest == push_metrics(data_exporter, requested, n - 1, env)
         IN  IF e.raised THEN [raised |-> "Exception", pushes |-> e.pushes]
             ELSE [raised |-> rest.raised, pushes |-> e.pushes + rest.pushes]

(* process_prometheus_export: five metrics per repository, then four per
   package with statistics *)
process_prometheus_export(opts, data_exporter, github_tracker, packages_info, env) ==
    LET requested == "prometheus" \in opts.output
        g == collect_github(requested /\ opts.type \in {"github", "all"}
                              /\ github_tracker, env)
        p == IF requested /\ opts.type \in {"pypi", "all"}
                  /\ packages_info.packages > 0 /\ packages_info.stats
               THEN packages_info.packages ELSE 0
    IN  IF g.raised # None THEN [raised |-> g.raised, pushes |-> 0]
        ELSE push_metrics(data_exporter, requested, 5 * g.repos + 4 * p, env)

(* line 476 as it would be if --dry-run were not looked at *)
exports_wanted_in_dry_run(opts, data_exporter) == data_exporter.present

(* line 476: if not opts.dry_run and data_exporter *)
exports_wanted(opts, data_exporter) == ~opts.dry_run /\ data_exporter.present

(* lines 452-483 *)
run_tasks(opts, github_tracker, pypi_tracker, data_exporter, env) ==
    LET github_called == opts.type \in {"github", "all"} /\ github_tracker
        issues == IF github_called
                    THEN check_issues([fetch_ok |-> env.fetch_ok, repos |-> env.repos,
                                       test_email |-> opts.test_email /\ ~opts.dry_run,
                                       dry_run |-> opts.dry_run, smtp |-> env.smtp,
                                       mail |-> env.mail])
                    ELSE NoIssues.out
        errors == IF issues.raised # None THEN 1 ELSE 0
        caught == [issues EXCEPT !.raised = None]
        pypi_called == opts.type \in {"pypi", "all"} /\ pypi_tracker
        results == IF pypi_called
                     THEN check_packages(
                            <<PkgA>>,
                            [n \in {PkgA} |->
                               [version |-> Answer("1.0"),
                                stats |-> [k \in {StatNames[x] : x \in 1..Len(StatNames)}
                                             |-> IF env.stats_ok THEN "json"
                                                                 ELSE "raises"]]])
                     ELSE <<>>
        packages_info == [packages |-> Len(results),
                          stats |-> results # <<>> /\ ~results[1].stats.isNone]
        wanted == exports_wanted(opts, data_exporter)
        i == IF wanted /\ "influx" \in opts.output
               THEN process_influx_export(opts, data_exporter, github_tracker,
                                          packages_info, env)
               ELSE [raised |-> None, writes |-> 0]
        p == IF wanted /\ i.raised = None /\ "prometheus" \in opts.output
               THEN process_prometheus_export(opts, data_exporter, github_tracker,
                                              packages_info, env)
               ELSE [raised |-> None, pushes |-> 0]
    IN  TasksOut(IF i.raised # None THEN i.raised ELSE p.raised,
                 caught, github_called, pypi_called, errors, i.writes, p.pushes)

(* The repositories a run is tried with: the requests about one either all
   succeed, with or without an issue, or the branches and issues requests
   fail *)
TaskRepos ==
    {r \in UNION {RepoAnswers(n) : n \in 1..MaxRepos} :
        r.downloads.ok /\ r.clones.ok /\ (r.branches.ok <=> r.issues.ok)}

(* lines 221-256 of main(): output is --output, configured the sinks whose
   section the loaded configuration holds, add_now the answer to "Add missing
   configurations now?", added the sinks whose section is there after
   generate_default_config and load_config.  missing and still_missing hold
   the names of the sections ("influxdb", "prometheus"), output the names of
   the sinks ("influx", "prometheus"); the result holds args.output as
   run_tasks will see it *)
missing_outputs(output, configured, add_now, added) ==
    LET sections(sinks) ==
            {IF o = "influx" THEN "influxdb" ELSE o : o \in sinks}
        missing == sections(output \ configured)
        still_missing == sections(output \ (configured \cup added))
    IN  IF missing = {}
          THEN [output |-> output, missing |-> {}, add_now |-> FALSE,
                still_missing |-> {}, configured |-> configured]
        ELSE IF add_now
          THEN [output |-> output \ still_missing, missing |-> missing,
                add_now |-> TRUE, still_missing |-> still_missing,
                configured |-> configured \cup added]
        ELSE [output |-> output, missing |-> missing, add_now |-> FALSE,
              still_missing |-> missing, configured |-> configured]

(* The exporter main() hands over: none without --output (lines 347-351),
   else one built from the configuration (line 260), which holds the
   sections of the sinks in configured *)
Exporters(output, configured) ==
    IF output = {} THEN NoExporter
    ELSE [present |-> TRUE, influx_config |-> "influx" \in configured,
          prometheus_config |->
             IF "prometheus" \in configured
               THEN [present |-> TRUE, gateway |-> Gw, job |-> "colter"]
               ELSE NoPrometheus]

(* run_tasks called once by the single run of main() (lines 340 and 427),
   after the outputs were checked against the configuration; a missing
   section is either declined, or accepted and then all or none of the
   missing sections are there *)
RunTasks ==
    /\ tasks.op = "none"
    /\ \E cli \in TaskArgs, github_tracker \in BOOLEAN, pypi_tracker \in BOOLEAN,
          env \in [repos : {api}, fetch_ok : BOOLEAN, smtp : BOOLEAN,
                   mail : {"ok", "login"}, stats_ok : BOOLEAN,
                   sink_fails : {0, MaxFails}] :
       \E configured \in SUBSET cli.output, add_now \in BOOLEAN :
       \E added \in {{}, cli.output \ configured} :
       \E m \in {missing_outputs(cli.output, configured, add_now, added)} :
       \E opts \in {[cli EXCEPT !.output = m.output]},
          data_exporter \in {Exporters(m.output, m.configured)} :
          tasks' = [op |-> "run_tasks", args |-> opts,
                    github_tracker |-> github_tracker, pypi_tracker |-> pypi_tracker,
                    data_exporter |-> data_exporter, env |-> env,
                    startup |-> [output |-> cli.output, missing |-> m.missing,
                                 add_now |-> m.add_now,
                                 still_missing |-> m.still_missing],
                    out |-> run_tasks(opts, github_tracker, pypi_tracker,
                                      data_exporter, env)]
    /\ lastOp' = "run_tasks"
    /\ UNCHANGED <<coreVars, crypto, export, api, gh, daemon, trackVars>>

NextTasks == RepoCreatedOf(TaskRepos) \/ RepoDeleted \/ RunTasks

SpecTasks == Init /\ [][NextTasks]_vars

(* C17: a run_tasks with --dry-run writes nothing to InfluxDB, pushes nothing
   to the Pushgateway, calls send_email_alert not at all and injects no fake
   issue, whatever the type, the outputs and --test-email are; the trackers
   selected by the type are still called, and the GitHub tracker still builds
   its statistics row for every repository listed. *)
C17_DryRunHasNoEffects ==
    (tasks.op = "run_tasks" /\ tasks.args.dry_run) =>
        /\ tasks.out.writes = 0
        /\ tasks.out.pushes = 0
        /\ ~tasks.out.issues.alert /\ tasks.out.issues.emails = 0
        /\ ~tasks.out.issues.fake
        /\ tasks.out.raised = None
        /\ (tasks.args.type \in {"github", "all"} /\ tasks.github_tracker) =>
              /\ tasks.out.github_called
              /\ tasks.env.fetch_ok =>
                    /\ tasks.out.issues.shown
                    /\ Len(tasks.out.issues.repo_stats) = Len(tasks.env.repos)
        /\ (tasks.args.type \in {"pypi", "all"} /\ tasks.pypi_tracker) =>
              tasks.out.pypi_called

(* a dry run with --test-email and both outputs, configured sinks, an smtp
   section and a repository that has an issue *)
C17_Witness ==
    /\ tasks.op = "run_tasks" /\ tasks.args.dry_run /\ tasks.args.test_email
    /\ tasks.args.output = {"influx", "prometheus"} /\ tasks.args.type = "all"
    /\ tasks.github_tracker /\ tasks.pypi_tracker
    /\ tasks.data_exporter.influx_config /\ tasks.env.smtp /\ tasks.env.fetch_ok
    /\ tasks.env.sink_fails = 0 /\ tasks.env.stats_ok
    /\ Len(tasks.env.repos) = 2
    /\ tasks.out.issues.issues_by_repo # <<>>
    /\ Len(tasks.out.issues.repo_stats) = 2
    /\ tasks.out.writes = 0 /\ tasks.out.pushes = 0

---------------------------------------------------------------------------
(* Daemon mode: colter.py, run_tasks_daemon_mode and job.  The two variants,
   with and without --output, differ only in the exporter. *)

(* DataExporter.__init__: the sink sections are taken from the configuration *)
exporter_of(doc) ==
    [present |-> TRUE, influx_config |-> doc["influxdb"].present,
     prometheus_config |->
        IF doc["prometheus"].present
          THEN [present |-> TRUE, gateway |-> doc["prometheus"].val.m, job |-> "colter"]
          ELSE NoPrometheus]

(* line 313 (400): run_tasks with the objects the names refer to now *)
job_tasks(cur, obs, env) ==
    LET t == run_tasks(cur.opts, cur.github_tracker, cur.pypi_tracker,
                       cur.data_exporter, env)
    IN  [cur EXCEPT !.job = [obs EXCEPT !.ran_tasks = TRUE, !.ran_with = cur.bound,
                                        !.raised = t.raised, !.errors = t.errors]]

(* lines 288-310 (379-397), the modification time has changed: l is what
   load_config gave for the startup password; an exception of load_config
   leaves job(), a falsy result is answered with sys.exit(1), and otherwise
   config, the trackers and, with --output, the exporter are built anew *)
job_reload(d, l, obs, env) ==
    LET n == d.reloads + 1
        outputs == d.opts.output # {}
    IN  IF l.raised # None
          THEN [d EXCEPT !.job = [obs EXCEPT !.changed = TRUE, !.raised = l.raised]]
        ELSE IF NoConfigLoaded(l)
          THEN [d EXCEPT !.job = [obs EXCEPT !.changed = TRUE,
                                             !.raised = "SystemExit"]]
        ELSE job_tasks(
               [d EXCEPT
                  !.config = l.config,
                  !.github_tracker = l.config["github"].present,
                  !.pypi_tracker = l.config["pypi"].present,
                  !.data_exporter = IF outputs THEN exporter_of(l.config) ELSE @,
                  !.clients = IF outputs /\ exporter_of(l.config).influx_config
                                THEN @ \cup {n} ELSE @,
                  !.bound = [config |-> n, github_tracker |-> n, pypi_tracker |-> n,
                             data_exporter |-> IF outputs THEN n
                                                          ELSE @.data_exporter],
                  !.reloads = n],
               [obs EXCEPT !.changed = TRUE, !.rebound = TRUE], env)

(* lines 272-313 and 363-400, one call of job(): d is the daemon with the
   locals as they are, sf and cf the files, env what the outside answers
   during run_tasks *)
job(d, sf, cf, env, kind) ==
    IF ~cf.exists
      THEN [d EXCEPT !.job = [NoJob EXCEPT !.kind = kind, !.skipped = TRUE]]
    ELSE IF d.st_mtime # d.last_config_mtime
      THEN job_reload([d EXCEPT !.last_config_mtime = d.st_mtime],
                      load_config(d.master_password, sf, cf, DefaultInput),
                      [NoJob EXCEPT !.kind = kind], env)
    ELSE job_tasks(d, [NoJob EXCEPT !.kind = kind], env)

(* The documents the configuration file is given outside the program: a
   full one, one without the github and sink sections, one whose github
   token is encrypted under another salt, and an empty one *)
DaemonDocs ==
    {MkDoc(Section(encrypt_data(Tok, derive_key("p1", salt).key)),
           Section(Plain(PkgA)),
           Section(encrypt_data(Tok, derive_key("p1", 1).key)),
           Section(Plain(Gw)), AbsentSection) : salt \in 1..2}
    \cup {MkDoc(AbsentSection, Section(Plain(PkgA)), AbsentSection,
                AbsentSection, AbsentSection),
          EmptyDoc}

(* The configuration file is written outside the program, and the salt file
   with it when it was gone *)
FilesWritten ==
    /\ daemon.st_mtime < MaxEdits
    /\ \E doc \in DaemonDocs :
         config_file' = [exists |-> TRUE, yaml_ok |-> TRUE, doc |-> doc]
    /\ salt_file' = [exists |-> TRUE, bytes |-> 1]
    /\ daemon' = [daemon EXCEPT !.st_mtime = @ + 1]
    /\ lastOp' = "files_written"
    /\ UNCHANGED <<sessionVars, configVars, mainVars, crypto, export, api, gh, tasks,
                 trackVars>>

(* The configuration file is removed outside the program *)
ConfigFileRemoved ==
    /\ config_file.exists
    /\ config_file' = NoConfig
    /\ lastOp' = "config_removed"
    /\ UNCHANGED <<salt_file, sessionVars, configVars, mainVars, extVars>>

(* DataExporter.__exit__ at the end of the with statement of line 260: the
   object the statement was entered with, the exporter of startup, closes its
   client if it has one; the name data_exporter plays no part in it *)
close_influx_client(d) == [d EXCEPT !.closed = d.clients \cap {0}]

(* main() with --schedule, from the load of the configuration (line 208) to
   line 270: the trackers and the exporter are built and the modification
   time of the file is taken *)
DaemonStart ==
    /\ daemon.pc = "off"
    /\ config_file.exists
    /\ \E output \in {{}, {"influx"}, {"prometheus"}} :
       \E l \in {load_config("p1", salt_file, config_file, DefaultInput)} :
          /\ l.raised = None /\ ~NoConfigLoaded(l)
          /\ daemon' =
               [daemon EXCEPT
                  !.pc = "first",
                  !.opts = [type |-> "all", output |-> output,
                            test_email |-> FALSE, dry_run |-> FALSE],
                  !.master_password = "p1",
                  !.last_config_mtime = daemon.st_mtime,
                  !.config = l.config,
                  !.github_tracker = l.config["github"].present,
                  !.pypi_tracker = l.config["pypi"].present,
                  !.data_exporter = IF output # {} THEN exporter_of(l.config)
                                                   ELSE NoExporter,
                  !.clients = IF output # {} /\ exporter_of(l.config).influx_config
                                THEN {0} ELSE {}]
    /\ lastOp' = "daemon_start"
    /\ UNCHANGED <<coreVars, crypto, export, api, gh, tasks, trackVars>>

(* One job: the first, called at line 321 (408) outside any handler, so that
   whatever it raises ends the process with status 1; or a scheduled one,
   called by schedule.run_pending() inside the try of lines 323-334
   (410-421), where sys.exit(1) passes through and any other exception is
   caught by the handler around the loop, after which main() returns *)
DaemonJob ==
    /\ daemon.pc \in {"first", "loop"}
    /\ daemon.jobs < MaxJobs
    /\ \E env \in [repos : {api}, fetch_ok : BOOLEAN, smtp : {FALSE}, mail : {"ok"},
                   stats_ok : {TRUE}, sink_fails : {0, MaxFails}] :
       \E d \in {job(daemon, salt_file, config_file, env,
                     IF daemon.pc = "first" THEN "first" ELSE "scheduled")} :
          daemon' =
             [(IF d.job.raised = None THEN d ELSE close_influx_client(d)) EXCEPT
                !.jobs = @ + 1,
                !.pc = IF d.job.raised = None THEN "loop" ELSE "ended",
                !.status = IF d.job.raised = None THEN 0
                           ELSE IF daemon.pc = "first" \/ d.job.raised = "SystemExit"
                             THEN 1
                           ELSE 0]
    /\ lastOp' = "job"
    /\ UNCHANGED <<coreVars, crypto, export, api, gh, tasks, trackVars>>

(* lines 327-328 (414-415): KeyboardInterrupt in the loop *)
DaemonInterrupt ==
    /\ daemon.pc = "loop"
    /\ daemon' = [close_influx_client(daemon) EXCEPT
                     !.pc = "ended", !.status = 0, !.job = NoJob]
    /\ lastOp' = "interrupt"
    /\ UNCHANGED <<coreVars, crypto, export, api, gh, tasks, trackVars>>

NextDaemon ==
    \/ FilesWritten \/ ConfigFileRemoved \/ SaltFileLost
    \/ DaemonStart \/ DaemonJob \/ DaemonInterrupt

SpecDaemon == Init /\ [][NextDaemon]_vars

(* C18: after a scheduled job in which run_tasks caught a tracking error or
   an export raised (a push that failed on every attempt, a GitHub API error
   while the export data were collected), the daemon is still in its loop. *)
C18_LoopSurvivesRunErrors ==
    (daemon.job.kind = "scheduled" /\ daemon.job.ran_tasks
       /\ (daemon.job.errors > 0 \/ daemon.job.raised # None)) =>
        daemon.pc = "loop"

(* C19: a job that finds the modification time changed either rebinds
   config, trackers and exporter to the objects of this reload and runs the
   tasks with them, or, the reload having failed, ends the process with
   status 1 without running the tasks; a job that finds it unchanged rebinds
   nothing. *)
C19_ReloadRebindsOrExitsOne ==
    (daemon.job.kind # "none" /\ ~daemon.job.skipped) =>
        /\ (daemon.job.changed /\ daemon.job.rebound) =>
              /\ daemon.job.ran_tasks
              /\ daemon.bound.config = daemon.reloads
              /\ daemon.bound.github_tracker = daemon.reloads
              /\ daemon.bound.pypi_tracker = daemon.reloads
              /\ daemon.opts.output # {} => daemon.bound.data_exporter = daemon.reloads
              /\ daemon.job.ran_with = daemon.bound
        /\ (daemon.job.changed /\ ~daemon.job.rebound) =>
              /\ ~daemon.job.ran_tasks
              /\ daemon.pc = "ended" /\ daemon.status = 1
        /\ ~daemon.job.changed =>
              /\ ~daemon.job.rebound
              /\ daemon.job.ran_with = daemon.bound

(***************************************************************************)
(* Claims on session creation under secret-store write errors              *)
(***************************************************************************)

(* C25: create_session ends normally whatever the secret store does with the
   two writes, and leaves the store in one of three states: as it found it
   (the password could not be stored, so no timestamp was written either),
   with only the password replaced by the one passed in (the timestamp could
   not be stored), or with the password passed in and the timestamp of the
   moment of creation. *)
C25_CreateSessionSurvivesStoreErrors ==
    lastOp = "create_session" =>
        \E p \in Passwords \ {""} :
            \/ keyring = pre_keyring
            \/ keyring = [pre_keyring EXCEPT !.master_password = p]
            \/ keyring = [master_password |-> p,
                          session_timestamp |-> SessionJson(now)]

C25_Witness ==
    /\ lastOp = "create_session"
    /\ pre_keyring.master_password = "p1"
    /\ keyring.master_password = "p2"
    /\ keyring.session_timestamp = pre_keyring.session_timestamp
    /\ keyring.session_timestamp # SessionJson(now)

(***************************************************************************)
(* Claims on the counts of process_batches                                 *)
(***************************************************************************)

(* C26: the success count of process_batches is the number of batches that
   were written: a batch whose export_to_influx_batch call ended without a
   successful write is not among the successes, and the summary "All N
   InfluxDB batches exported successfully" (printed when no failure was
   counted) appears only when every batch was written. *)
C26_SuccessCountIsBatchesWritten ==
    export.op = "process_batches" =>
        LET written == {i \in 1..Len(export.log) :
                           ~export.log[i].raised /\ export.log[i].writes >= 1}
        IN  /\ export.success_count = Cardinality(written)
            /\ (export.fails # <<>> /\ export.failure_count = 0) =>
                  Cardinality(written) = Len(export.fails)

(***************************************************************************)
(* Claims on outputs whose configuration section is missing                *)
(***************************************************************************)

(* C27: a sink named in --output whose section is missing and is still
   missing after generate_default_config was offered, or whose addition the
   user declined, is not among the outputs run_tasks works with, and nothing
   is written or pushed to it. *)
C27_MissingSinkSkipped ==
    tasks.op = "run_tasks" =>
        /\ "influxdb" \in tasks.startup.still_missing =>
              "influx" \notin tasks.args.output /\ tasks.out.writes = 0
        /\ "prometheus" \in tasks.startup.still_missing =>
              "prometheus" \notin tasks.args.output /\ tasks.out.pushes = 0

(***************************************************************************)
(* Claims on the closing of the exporters                                  *)
(***************************************************************************)

(* C28: once the exporter context has ended, every DataExporter built during
   the process with an InfluxDB client, the one of startup and each one
   built by a reload of the daemon, has had that client closed. *)
C28_EveryExporterClosed ==
    daemon.pc = "ended" => daemon.closed = daemon.clients

(***************************************************************************)
(* Claims on the key of the fields on disk                                 *)
(***************************************************************************)

(* C29: whatever generate_default_config and load_config calls were made, with
   whatever non-empty passwords, the sensitive fields of the document on disk
   (github.token, smtp.password, influxdb.token) are all encrypted under the
   same key: no call adds a field under a password that does not decrypt the
   fields already there. *)
C29_OneKeyOnDisk ==
    \A s \in SensitiveSections, t \in SensitiveSections :
        (DocOf(config_file)[s].present /\ DocOf(config_file)[t].present) =>
            DocOf(config_file)[s].val.key = DocOf(config_file)[t].val.key

(***************************************************************************)
(* Claims on the e-mail alert                                              *)
(***************************************************************************)

(* C21: once the repositories were listed, check_issues returns its issue
   map and prints the statistics after it, whatever became of the alert: an
   alert without an smtp section, or one whose connection, TLS start, login
   or sending fails, raises nothing and delivers no message; send_email_alert
   is called exactly when the issue map is not empty and the run is no dry
   run, and a message is delivered exactly when it is called with an smtp
   section and every step succeeds. *)
C21_AlertNeverRaises ==
    (gh.op = "check_issues" /\ gh.in.fetch_ok) =>
        /\ gh.out.raised = None
        /\ gh.out.shown
        /\ Len(gh.out.repo_stats) = Len(gh.in.repos)
        /\ gh.out.alert <=> (gh.out.issues_by_repo # <<>> /\ ~gh.in.dry_run)
        /\ gh.out.emails =
              (IF gh.out.alert /\ gh.in.smtp /\ gh.in.mail = "ok" THEN 1 ELSE 0)

(* an alert for a repository with an issue whose SMTP login is refused *)
C21_Witness ==
    /\ gh.op = "check_issues"
    /\ gh.in.fetch_ok /\ gh.in.smtp /\ gh.in.mail = "login"
    /\ ~gh.in.dry_run /\ ~gh.in.test_email
    /\ gh.out.alert /\ gh.out.emails = 0
    /\ gh.out.raised = None /\ gh.out.shown
    /\ gh.out.issues_by_repo # <<>>

---------------------------------------------------------------------------
(* GitHubTracker.fetch_repos and fetch_branches_count behind their caches:
   _github_helper.py *)

ttl == 300

(* What requests.get can give: a 200 answer whose body is the JSON of a list
   of repositories (or of branches), a 200 answer whose body is no JSON, an
   error status with its body, or an exception of the transport *)
Responses ==
    {[kind |-> "response", status_code |-> "200", text |-> "[..]", json |-> Answer(l)] :
        l \in {<<>>, <<[name |-> "repo1", private |-> FALSE],
                       [name |-> "repo2", private |-> TRUE]>>}}
    \cup {[kind |-> "response", status_code |-> "200", text |-> "<html>",
           json |-> Failure(<<>>)]}
    \cup {[kind |-> "response", status_code |-> "403", text |-> "Forbidden",
           json |-> Failure(<<>>)]}
    \cup {[kind |-> "exception", status_code |-> "", text |-> "ConnectionError",
           json |-> Failure(<<>>)]}

(* lines 87-94 as they would be if an error answer were logged and an empty
   list returned *)
fetch_repos_empty_on_error(response) ==
    IF response.kind = "response" /\ response.status_code = "200" /\ response.json.ok
      THEN [raised |-> None, val |-> response.json.val, message |-> <<>>]
      ELSE [raised |-> None, val |-> <<>>, message |-> <<>>]

(* lines 85-94, the body of fetch_repos: the GitHubAPIError raised for an
   error status inside the try is caught by "except Exception" like an
   exception of requests.get or of response.json(), and a GitHubAPIError is
   raised whose message ends with the text of what was caught *)
fetch_repos(response) ==
    LET caught ==
          IF response.kind = "exception" THEN <<response.text>>
          ELSE IF response.status_code # "200"
            THEN <<"Failed to fetch repos: ", response.status_code, " ", response.text>>
          ELSE IF ~response.json.ok THEN <<"JSONDecodeError">>
          ELSE <<>>
    IN  IF caught # <<>>
          THEN [raised |-> "GitHubAPIError", val |-> <<>>,
                message |-> <<"An error occurred while fetching repositories: ">>
                            \o caught]
          ELSE [raised |-> None, val |-> response.json.val, message |-> <<>>]

(* lines 113-129, the body of fetch_branches_count *)
fetch_branches_count(response) ==
    LET caught ==
          IF response.kind = "exception" THEN <<response.text>>
          ELSE IF response.status_code # "200"
            THEN <<"Failed to fetch branches for owner/repo: ",
                   response.status_code, " ", response.text>>
          ELSE IF ~response.json.ok THEN <<"JSONDecodeError">>
          ELSE <<>>
    IN  IF caught # <<>>
          THEN [raised |-> "GitHubAPIError", val |-> 0,
                message |-> <<"An error occurred while fetching branches for owner/repo: ">>
                            \o caught]
          ELSE [raised |-> None, val |-> Len(response.json.val), message |-> <<>>]

(* @cached as it would be if the outcome of a call that raised were kept
   and served like a result *)
cached_keeping_errors(cache, key, t, out) ==
    IF cache[key].present /\ 60 * t < cache[key].expires
      THEN [cache |-> cache, http |-> 0, out |-> cache[key].val]
      ELSE [cache |-> [cache EXCEPT ![key] = [present |-> TRUE,
                                               expires |-> 60 * t + ttl,
                                               val |-> out]],
            http |-> 1, out |-> out]

(* @cached(cache=TTLCache(maxsize=100, ttl=300)), lines 66, 96, 131 and 170:
   an entry of the call signature that has not expired is returned without
   running the body; otherwise the body runs (out is its outcome), an
   exception leaves the cache as it was, and a result is stored, after the
   expired entries were removed, to expire ttl seconds later.  t is the clock
   in minutes.  The model never holds more than maxsize = 100 entries, more
   than the repositories one page of the listing holds *)
cached(cache, key, t, out) ==
    IF cache[key].present /\ 60 * t < cache[key].expires
      THEN [cache |-> cache, http |-> 0, out |-> cache[key].val]
    ELSE IF out.raised # None
      THEN [cache |-> cache, http |-> 1, out |-> out]
    ELSE [cache |-> [k \in FetchKeys |->
                        IF k = key
                          THEN [present |-> TRUE, expires |-> 60 * t + ttl, val |-> out]
                        ELSE IF cache[k].present /\ 60 * t < cache[k].expires
                          THEN cache[k]
                        ELSE NoEntry],
          http |-> 1, out |-> out]

(* One call of fetch_repos() or of fetch_branches_count(owner, repo) on the
   tracker *)
Fetch ==
    /\ \E key \in FetchKeys, response \in Responses :
       \E out \in {IF key = "fetch_repos" THEN fetch_repos(response)
                                          ELSE fetch_branches_count(response)} :
       \E c \in {cached(fetch.cache, key, now, out)} :
          fetch' =
            [cache |-> c.cache,
             answered |->
                IF c.http = 0 THEN fetch.answered
                ELSE IF out.raised # None
                  THEN [fetch.answered EXCEPT ![key].failed = TRUE]
                ELSE [fetch.answered EXCEPT
                        ![key] = [t |-> now, val |-> out.val, failed |-> FALSE]],
             call |-> [key |-> key, at |-> now, http |-> c.http,
                       response |-> IF c.http = 1 THEN response ELSE "none",
                       raised |-> c.out.raised, val |-> c.out.val,
                       message |-> c.out.message, prior |-> fetch.answered[key]]]
    /\ lastOp' = "fetch"
    /\ UNCHANGED <<coreVars, crypto, export, runVars, pkgs>>

(* A minute passes while the tracker is in use *)
FetchTick == now < MaxFetchTime /\ Wait(1)

SpecFetch == Init /\ [][Fetch \/ FetchTick]_vars

(***************************************************************************)
(* Claims on the cached fetch methods                                      *)
(***************************************************************************)

(* C22 as stated: a fetch_repos call that sent its request returns the list
   on a 200 answer, and on any other answer and on an exception of the
   transport raises GitHubAPIError with a message that includes an HTTP
   status code and the body of the answer. *)
C22_MessageHasStatusAndBody ==
    (fetch.call.key = "fetch_repos" /\ fetch.call.http = 1) =>
        LET c == fetch.call
            Includes(x) == \E i \in 1..Len(c.message) : c.message[i] = x
            Codes == {r.status_code : r \in {q \in Responses : q.kind = "response"}}
        IN  IF c.response.kind = "response" /\ c.response.status_code = "200"
              THEN c.raised = None
              ELSE /\ c.raised = "GitHubAPIError"
                   /\ \E code \in Codes : Includes(code)
                   /\ Includes(c.response.text)

(* an exception of the transport: the message holds its text and no status *)
C22_Witness ==
    /\ fetch.call.key = "fetch_repos" /\ fetch.call.http = 1
    /\ fetch.call.response.kind = "exception"
    /\ fetch.call.raised = "GitHubAPIError"
    /\ fetch.call.message =
          <<"An error occurred while fetching repositories: ", "ConnectionError">>

(* C22, amended: a fetch_repos call that sent its request returns the parsed
   list, as it came, on a 200 answer whose body is JSON; on an answer with
   another status it raises GitHubAPIError with a message that includes the
   status code and the body; on an exception of the transport, or of the
   parsing of a 200 body, it raises GitHubAPIError with a message that
   includes the text of that exception; it returns no list with an error. *)
C22_FetchReposContract ==
    (fetch.call.key = "fetch_repos" /\ fetch.call.http = 1) =>
        LET c == fetch.call
            Includes(x) == \E i \in 1..Len(c.message) : c.message[i] = x
        IN  IF c.response.kind = "response" /\ c.response.status_code = "200"
               /\ c.response.json.ok
              THEN c.raised = None /\ c.val = c.response.json.val
              ELSE /\ c.raised = "GitHubAPIError"
                   /\ c.val = <<>>
                   /\ (c.response.kind = "response" /\ c.response.status_code # "200")
                        => Includes(c.response.status_code) /\ Includes(c.response.text)
                   /\ c.response.kind = "exception" => Includes(c.response.text)
                   /\ (c.response.kind = "response" /\ c.response.status_code = "200")
                        => Includes("JSONDecodeError")

(* C30: a call of a cached fetch method is answered without a request, with
   the result of the last 200 answer to the same call, while less than 5
   minutes have passed since that answer; it sends its request when there
   was no such answer, when 5 minutes or more have passed since, and when the
   latest request of that call failed. *)
C30_FreshResultsAreCached ==
    fetch.call.key # "none" =>
        LET c == fetch.call
            fresh == c.prior.t >= 0 /\ 60 * (c.at - c.prior.t) < ttl
        IN  /\ fresh => (c.http = 0 /\ c.raised = None /\ c.val = c.prior.val)
            /\ ~fresh => c.http = 1
            /\ c.prior.failed => c.http = 1

(* a call made exactly 5 minutes after the answer it could have reused *)
C30_Witness ==
    /\ fetch.call.key = "fetch_branches_count"
    /\ fetch.call.prior.t >= 0
    /\ 60 * (fetch.call.at - fetch.call.prior.t) = ttl
    /\ fetch.call.http = 1
    /\ fetch.call.raised = None /\ fetch.call.val = 2 /\ fetch.call.prior.val = 0

---------------------------------------------------------------------------
(* The PyPITracker methods called on their own *)

(* fetch_pypi_stats for one package, with every combination of outcomes;
   one call is followed from the tracker as it was built *)
FetchPypiStats ==
    /\ pkgs.op = "none"
    /\ \E outcomes \in [{StatNames[i] : i \in 1..Len(StatNames)} ->
                          {"json", "invalid", "raises"}] :
          pkgs' = [NoPackages EXCEPT !.op = "fetch_pypi_stats",
                                     !.outcomes = outcomes,
                                     !.stats = fetch_pypi_stats(outcomes)]
    /\ lastOp' = "fetch_pypi_stats"
    /\ UNCHANGED <<coreVars, crypto, export, runVars, fetch>>

(* check_packages on a tracker configured with up to two entries, which may
   be blank or padded with blanks; for each of the two package names PyPI
   answers the version request or not, and the statistics all arrive, or one
   of them is no JSON, or one of the calls raises *)
CheckPackages ==
    /\ pkgs.op = "none"
    /\ \E n \in 0..2 :
       \E packages \in [1..n -> {PkgA, <<32>> \o PkgA, PkgB \o <<32>>, <<32>>, <<>>}],
          pypi \in [{PkgA, PkgB} ->
                      [version : {Answer("1.0"), Failure("")},
                       stats : {[k \in {StatNames[i] : i \in 1..Len(StatNames)} |->
                                   IF k = bad THEN how ELSE "json"] :
                                bad \in {"recent", "system"},
                                how \in {"json", "invalid", "raises"}}]] :
          pkgs' = [NoPackages EXCEPT !.op = "check_packages",
                                     !.packages = packages, !.pypi = pypi,
                                     !.results = check_packages(packages, pypi)]
    /\ lastOp' = "check_packages"
    /\ UNCHANGED <<coreVars, crypto, export, runVars, fetch>>

SpecPypi == Init /\ [][FetchPypiStats \/ CheckPackages]_vars

(***************************************************************************)
(* Claims on the PyPI tracker                                              *)
(***************************************************************************)

(* C23: fetch_pypi_stats returns either a record with all five statistics
   or None, never a record with some of them, and it returns None exactly
   when one of the five fetches raises or gives text that is no JSON. *)
C23_AllFiveOrNone ==
    pkgs.op = "fetch_pypi_stats" =>
        /\ (pkgs.stats.isNone /\ pkgs.stats.keys = {})
             \/ (~pkgs.stats.isNone
                   /\ pkgs.stats.keys = {"recent", "overall", "python_major",
                                         "python_minor", "system"})
        /\ pkgs.stats.isNone <=>
              \E k \in DOMAIN pkgs.outcomes : pkgs.outcomes[k] # "json"

(* four statistics arrive and parse, the last one is no JSON *)
C23_Witness ==
    /\ pkgs.op = "fetch_pypi_stats"
    /\ pkgs.outcomes["system"] = "invalid"
    /\ \A k \in DOMAIN pkgs.outcomes \ {"system"} : pkgs.outcomes[k] = "json"
    /\ pkgs.stats.isNone /\ pkgs.stats.calls = 5

(* C24: check_packages returns one entry for every name that is left of a
   configured package after stripping, and none for a blank one; the entry
   of a name holds version "Error" when its version lookup failed and the
   version otherwise, stats None when its statistics failed and the five
   statistics otherwise, whatever happened to the other names. *)
C24_OneEntryPerPackage ==
    pkgs.op = "check_packages" =>
        LET r == pkgs.results
            blank(p) == \A i \in 1..Len(p) : p[i] = 32
            core(p) == IF p = <<32>> \o PkgA THEN PkgA
                       ELSE IF p = PkgB \o <<32>> THEN PkgB ELSE p
            names == {core(pkgs.packages[i]) :
                        i \in {k \in 1..Len(pkgs.packages) : ~blank(pkgs.packages[k])}}
        IN  /\ {r[j].name : j \in 1..Len(r)} = names
            /\ Len(r) = Cardinality(names)
            /\ \A j \in 1..Len(r) :
                 LET w == pkgs.pypi[r[j].name]
                 IN  /\ r[j].version = (IF w.version.ok THEN "1.0" ELSE "Error")
                     /\ r[j].stats.isNone <=>
                           \E k \in DOMAIN w.stats : w.stats[k] # "json"
                     /\ ~r[j].stats.isNone => Cardinality(r[j].stats.keys) = 5

(* " a" fails both lookups, "b " succeeds in both *)
C24_Witness ==
    /\ pkgs.op = "check_packages"
    /\ pkgs.packages = << <<32>> \o PkgA, PkgB \o <<32>> >>
    /\ ~pkgs.pypi[PkgA].version.ok /\ pkgs.pypi[PkgA].stats["recent"] = "raises"
    /\ Len(pkgs.results) = 2
    /\ pkgs.results[1] = [name |-> PkgA, version |-> "Error",
                          stats |-> [isNone |-> TRUE, keys |-> {}, calls |-> 1]]
    /\ pkgs.results[2].name = PkgB /\ pkgs.results[2].version = "1.0"
    /\ ~pkgs.results[2].stats.isNone

====
